---- MODULE Spec2Model ----
(***************************************************************************)
(* Model of the ingestion-and-retrieval pipeline of document-analyzer-rag: *)
(* the in-memory job queue (services/jobQueue.js), the indexing            *)
(* orchestrator (indexingService.indexPdfById), the document records       *)
(* (pdfRecordService) and the vector store (vectorService).                *)
(*                                                                         *)
(* JavaScript runs one callback at a time, so an action is the code that   *)
(* runs between two suspension points (await of I/O or of a timer).        *)
(***************************************************************************)
EXTENDS Integers, Sequences, FiniteSets, TLC

\* ------------------------------------------------------------------ bounds
MaxJobs == 2          \* addJob calls in one process lifetime
MaxPdfs == 1          \* documents ever uploaded
MaxChunks == 1        \* chunks of a document that has any (chunkText gives 0 or MaxChunks)
MaxRetriesArg == 1    \* payload.maxRetries values 0..MaxRetriesArg (0 = absent)
MaxBatches == 2       \* direct addChunks calls on the vector store
MaxModels == 2        \* generation model candidates configured (0..MaxModels)
MaxTokens == 1        \* tokens one generation stream yields
MaxLines == 3         \* lines of a raw model output
MaxRequests == 2      \* streaming chat requests in flight together
MaxItems == 3         \* chunks embedded / rows scanned in one attempt
MaxDocs == 2          \* documents uploaded to the session that is deleted
MaxMessages == 1      \* conversations stored in that session
MaxRefresh == 3       \* refresh tokens ever issued
MaxCalls == 3         \* rotateRefreshToken calls with one token
MaxLogins == 2        \* authenticateUser calls in flight together
MaxTime == 5          \* the time up to which logins are followed
MaxLengthSteps == 100 \* text lengths, in steps of 4000 characters
MaxRatio == 4         \* largest RAG_TOKEN_TO_CHAR_RATIO set
MaxTurns == 1         \* chat history rows up to which restarts are followed

\* ------------------------------------------------------- program constants
DefaultMaxRetries == 2          \* jobQueue.js:51  payload.maxRetries || 2
DefaultLimit == 300             \* vectorService similaritySearch limit = 300
DefaultTopK == 5                \* vectorService similaritySearch topK = 5
EMBEDDING_CACHE_LIMIT == 400    \* vectorService EMBEDDING_CACHE_LIMIT
GenerationTimeout == 25         \* ragService 25_000 ms, in seconds
LOGIN_WINDOW_MS == 2    \* authService.js:15  15 min, in units of 7.5 min
LOGIN_LOCK_MS == 2      \* authService.js:16  15 min, in units of 7.5 min
LOGIN_MAX_FAILURES == 6 \* authService.js:17
TOKEN_TO_CHAR_RATIO == 4         \* part_008:9  Number(env) || 4

VARIABLES
  queue,      \* jobQueue.js:7   pending lane, job ids in arrival order
  jobs,       \* jobQueue.js:8   job store, id -> job (ids are 1..Len(jobs))
  running,    \* jobQueue.js:9   a processQueue loop is active
  sequence,   \* jobQueue.js:10  next job sequence number
  pc,         \* where the active processQueue loop is suspended
  cur,        \* id of the job the loop is working on (0 = none)
  plan,       \* per job: how many of its next handler executions throw
              \* (maxRetries + 1 or more: all of them)
  pdfs,       \* table pdfs: id -> [sessionId, status, indexedChunks] and,
              \* of the file at path, readable (the parser extracts some
              \* text) and nchunks (how many chunks chunkText cuts it into)
  chunks,     \* table chunks, rows in insertion (rowid) order
  clock,      \* logical time, source of createdAt
  lastSearch, \* the latest similaritySearch call: its arguments and result
  embeddingCache, \* vectorService embeddingCache, a Map from chunk id to
                  \* vector: [entries, keys]
  call,           \* the runChatQuery / runChatQueryStream call a route makes
                  \* directly: where it is suspended, its locals, its outcome
  answer,         \* a normalizeAnswerPayload call with style structured: the
                  \* raw text it was given and the responseSchema it gave
  streams,        \* POST /sessions/:sessionId/chat, stream branch: per
                  \* request its closure (clientDisconnected), what was
                  \* written to its response, and where it is suspended
  history,        \* table chat_messages (chat_history in the services of
                  \* the job engine), rows in insertion order
  tables,         \* the rows one session owns: its sessions row, and per
                  \* document the pdfs row, the chunks rows, the job_queue
                  \* row and the indexPdf job; its chat_messages rows
  refresh,        \* table refresh_tokens (the tokens that have a row) and,
                  \* per token, the status of each rotateRefreshToken call
  auth,           \* login of one (email, ip) pair: its login_attempts row,
                  \* the time, the authenticateUser calls in flight, and
                  \* until when the latest lock that was set runs
  progress,       \* one attempt of indexPdfById, runChatQuery or
                  \* runChatQueryStream called with onProgress: the events
                  \* it has reported and where it stands
  params          \* a getIndexingParams call: the length of the text, the
                  \* setting of RAG_TOKEN_TO_CHAR_RATIO and what it returned

vars == <<queue, jobs, running, sequence, pc, cur, plan, pdfs, chunks, clock, lastSearch,
          embeddingCache, call, answer, streams, history, progress,
          tables, refresh, auth, params>>

Min(a, b) == IF a <= b THEN a ELSE b
Max(a, b) == IF a >= b THEN a ELSE b
Range(s) == {s[i] : i \in DOMAIN s}

\* Body(value), with value computed once however often Body uses it.
Once(value, Body(_)) == CHOOSE r \in {Body(v) : v \in {value}} : TRUE

Sessions == {1, 2}
NoResult == [kind |-> "null"]
NoSearch == [at |-> 0]
Requests == 1..MaxRequests
NoStream ==
  [phase |-> "none", clientDisconnected |-> FALSE, writableEnded |-> FALSE,
   written |-> <<>>, tokens |-> 0, outcome |-> ""]

Tokens == 1..MaxRefresh
NoRefresh == [rows |-> {}, issued |-> 0, calls |-> [t \in Tokens |-> <<>>]]

Logins == 1..MaxLogins
NoRow == [exists |-> FALSE, attempts |-> 0, locked_until |-> 0, window_start |-> 0]
NoLogin == [phase |-> "idle", user |-> FALSE, matches |-> FALSE, status |-> 0]
NoAuth ==
  [now |-> 1, user |-> FALSE, attempt |-> NoRow, lockSet |-> 0,
   logins |-> [r \in Logins |-> NoLogin]]

Docs == 1..MaxDocs
NoTables ==
  [session |-> TRUE, messages |-> 0,
   pdf |-> [d \in Docs |-> "none"],
   segments |-> [d \in Docs |-> 0],
   jobRow |-> [d \in Docs |-> FALSE],
   job |-> [d \in Docs |-> "none"],
   attempts |-> [d \in Docs |-> 0]]

NoProgress ==
  [fn |-> "", phase |-> "none", total |-> 0, size |-> 0, processed |-> 0,
   events |-> <<>>]

NoAnswer == [raw |-> <<>>, sections |-> <<>>]
NoParams == [called |-> FALSE, length |-> 0, env |-> 0, result |-> NoResult]
\* No call in flight.  phase: where the call stands; mode: runChatQuery
\* ("plain") or runChatQueryStream ("stream"); models: how many candidates
\* getGenerationModelCandidates gives; i: the loop index, from 1; attempt:
\* what the current attempt awaits; elapsed: seconds since it began; tried:
\* the backend calls made so far and how each ended; generation: how
\* generateText(Stream)WithFallback settled; fullText, emitted: the tokens
\* of this attempt and those handed to onToken; candidates: what retrieval
\* gave; result: what the call returned.
NoCall ==
  [phase |-> "idle", mode |-> "plain", models |-> 0, i |-> 0, attempt |-> "none",
   elapsed |-> 0, tried |-> <<>>, generation |-> "none", fullText |-> <<>>,
   emitted |-> <<>>, retrieved |-> FALSE, candidates |-> <<>>, result |-> NoResult]

\* ------------------------------------------------------------ vector store
\* Embedding vectors are short tuples of small integers.
Needle == <<1, 0>>
Filler == <<0, 1>>
Diag == <<1, 1>>
ZeroVec == <<0, 0>>
Short == <<1>>
Opposite == <<-1, 0>>
Obtuse == <<-1, 1>>

\* embeddingService.generateEmbeddings is outside the pipeline core: a
\* deterministic map from chunk text to a vector.  Chunk texts of an indexed
\* document are its chunk positions 1..n.
EmbeddingOf(text) == IF text = 1 THEN Needle ELSE Filler

\* addChunks 245: a value that is no array is stored as the empty array.
\* JSON.stringify on insert and JSON.parse on read give back an array of
\* integers as it was.
StoredEmbedding(e) == IF e = "undefined" THEN <<>> ELSE e

\* vectorService.addChunks: one transaction inserting every item with a fresh
\* id and the same createdAt.  The function destructures sessionId, pdfId and
\* items only: replace (replacePdfChunks) has no effect, and the chunkKey of an
\* item is not among the inserted columns.
AddChunks(rows, sessionId, pdfId, items, replace, now) ==
  rows \o [i \in 1..Len(items) |->
            [id |-> Len(rows) + i, sessionId |-> sessionId, pdfId |-> pdfId,
             text |-> items[i].text,
             embedding |-> StoredEmbedding(items[i].embedding),
             createdAt |-> now]]

RECURSIVE SumTo(_, _)
SumTo(f, n) == IF n = 0 THEN 0 ELSE f[n] + SumTo(f, n - 1)

\* A similarity score.  The cosine dot / (sqrt(magA) * sqrt(magB)) is kept
\* exactly as the fraction sign(dot) * dot^2 / (magA * magB): the same sign and
\* the same order as the cosine, and -1 for -1.
Invalid == [num |-> -1, den |-> 1]
ScoreLess(x, y) == x.num * y.den < y.num * x.den
ScoreNonNegative(x) == x.num >= 0

\* A cosineSimilarity that scores an undefined similarity as 0.
cosineSimilarityZero(a, b) ==
  IF Len(a) # Len(b)
  THEN [num |-> 0, den |-> 1]
  ELSE LET dot == SumTo([i \in 1..Len(a) |-> a[i] * b[i]], Len(a))
           magA == SumTo([i \in 1..Len(a) |-> a[i] * a[i]], Len(a))
           magB == SumTo([i \in 1..Len(b) |-> b[i] * b[i]], Len(b))
       IN IF magA = 0 \/ magB = 0
          THEN [num |-> 0, den |-> 1]
          ELSE [num |-> (IF dot < 0 THEN -1 ELSE 1) * dot * dot, den |-> magA * magB]

\* vectorService.cosineSimilarity (262-282)
cosineSimilarity(a, b) ==
  IF Len(a) # Len(b)
  THEN Invalid
  ELSE LET dot == SumTo([i \in 1..Len(a) |-> a[i] * b[i]], Len(a))
           magA == SumTo([i \in 1..Len(a) |-> a[i] * a[i]], Len(a))
           magB == SumTo([i \in 1..Len(b) |-> b[i] * b[i]], Len(b))
       IN IF magA = 0 \/ magB = 0
          THEN Invalid
          ELSE [num |-> (IF dot < 0 THEN -1 ELSE 1) * dot * dot, den |-> magA * magB]

Reverse(sq) == [i \in 1..Len(sq) |-> sq[Len(sq) + 1 - i]]

\* ORDER BY createdAt DESC over rows that are in insertion order, hence in
\* ascending createdAt: the batches newest first.  SQL leaves the order of rows
\* with equal createdAt open; tie says whether they come in rowid order
\* ("asc") or in reverse rowid order ("desc").
RECURSIVE NewestBatchFirst(_)
NewestBatchFirst(sq) ==
  IF sq = <<>>
  THEN <<>>
  ELSE LET t == sq[Len(sq)].createdAt
           Starts(i) == sq[i].createdAt = t /\ (i = 1 \/ sq[i - 1].createdAt # t)
       IN Once(CHOOSE i \in 1..Len(sq) : Starts(i),
               LAMBDA first :
                 Once(SubSeq(sq, 1, first - 1),
                      LAMBDA older : SubSeq(sq, first, Len(sq)) \o NewestBatchFirst(older)))

OrderByCreatedAtDesc(sq, tie) ==
  Once(sq, LAMBDA rows : IF tie = "desc" THEN Reverse(rows) ELSE NewestBatchFirst(rows))

\* selectChunksBySessionStmt (195-201): WHERE sessionId = ? ORDER BY createdAt
\* DESC LIMIT ? OFFSET ?
SelectChunksBySession(rows, sessionId, limit, offset, tie) ==
  LET InSession(r) == r.sessionId = sessionId
  IN Once(OrderByCreatedAtDesc(SelectSeq(rows, InSession), tie),
          LAMBDA ordered :
            SubSeq(ordered, offset + 1, Min(Len(ordered), offset + limit)))

\* A sort that is not stable: among equal scores the entry scanned last comes
\* first.
RECURSIVE SortDescSliceUnstable(_, _)
SortDescSliceUnstable(cands, k) ==
  IF k = 0 \/ cands = <<>>
  THEN <<>>
  ELSE LET scores == {cands[i].score : i \in 1..Len(cands)}
           best == CHOOSE x \in scores : \A y \in scores : ~ScoreLess(x, y)
           at == CHOOSE i \in 1..Len(cands) :
                   /\ cands[i].score = best
                   /\ \A j \in (i + 1)..Len(cands) : cands[j].score # best
       IN <<cands[at]>>
            \o SortDescSliceUnstable(SubSeq(cands, 1, at - 1)
                                       \o SubSeq(cands, at + 1, Len(cands)), k - 1)

\* .sort((a, b) => b.score - a.score).slice(0, topK) (320-321): the sort is
\* stable, so the k first entries are found by taking, k times, the first
\* entry with the highest score among those left.
RECURSIVE SortDescSlice(_, _)
SortDescSlice(cands, k) ==
  IF k = 0 \/ cands = <<>>
  THEN <<>>
  ELSE Once({cands[i].score : i \in 1..Len(cands)},
            LAMBDA scores :
              Once(CHOOSE x \in scores : \A y \in scores : ~ScoreLess(x, y),
                   LAMBDA best :
                     Once(CHOOSE i \in 1..Len(cands) :
                            /\ cands[i].score = best
                            /\ \A j \in 1..(i - 1) : cands[j].score # best,
                          LAMBDA at :
                            Once(SubSeq(cands, 1, at - 1)
                                   \o SubSeq(cands, at + 1, Len(cands)),
                                 LAMBDA rest :
                                   <<cands[at]>> \o SortDescSlice(rest, k - 1)))))

\* The Map embeddingCache: its entries [id, vector] in iteration (insertion)
\* order, and its keys as the hash index has, get and delete look up.
EmptyCache == [entries |-> <<>>, keys |-> {}]

\* embeddingCache.has(id)
CacheHas(cache, id) == id \in cache.keys

\* Position of the entry of a key the Map has.
CacheIndex(cache, id) ==
  CHOOSE i \in 1..Len(cache.entries) : cache.entries[i].id = id

\* embeddingCache.delete(id) of a key the Map has
CacheDelete(cache, id) ==
  LET at == CacheIndex(cache, id)
  IN [entries |-> SubSeq(cache.entries, 1, at - 1)
                    \o SubSeq(cache.entries, at + 1, Len(cache.entries)),
      keys |-> cache.keys \ {id}]

\* embeddingCache.set(id, vector) of a key the Map does not have
CacheSet(cache, id, vector) ==
  [entries |-> Append(cache.entries, [id |-> id, vector |-> vector]),
   keys |-> cache.keys \cup {id}]

\* A setCache that never evicts.
NoEviction(cache) == cache

\* setCache 223-226: while the Map is over the limit, delete its first key
RECURSIVE EvictOldest(_)
EvictOldest(cache) ==
  IF Len(cache.entries) > EMBEDDING_CACHE_LIMIT
  THEN EvictOldest([entries |-> Tail(cache.entries),
                    keys |-> cache.keys \ {Head(cache.entries).id}])
  ELSE cache

\* vectorService.setCache (217-227): the cache after the call
setCache(cache, id, vector) ==
  LET without == IF CacheHas(cache, id) THEN CacheDelete(cache, id) ELSE cache
  IN Once(CacheSet(without, id, vector), LAMBDA added : EvictOldest(added))

\* A getCachedVector that reads the entry and leaves it where it is.
getCachedVectorInPlace(cache, id) ==
  IF ~CacheHas(cache, id)
  THEN [hit |-> FALSE, value |-> <<>>, cache |-> cache]
  ELSE [hit |-> TRUE, value |-> cache.entries[CacheIndex(cache, id)].vector,
        cache |-> cache]

\* vectorService.getCachedVector (229-238): whether a value is returned (no
\* hit: null), the value, and the cache after the call; a hit deletes the
\* entry and sets it again, which puts it last.
getCachedVector(cache, id) ==
  IF ~CacheHas(cache, id)
  THEN [hit |-> FALSE, value |-> <<>>, cache |-> cache]
  ELSE LET value == cache.entries[CacheIndex(cache, id)].vector
       IN [hit |-> TRUE, value |-> value,
           cache |-> CacheSet(CacheDelete(cache, id), id, value)]

\* A parseVectorForChunk that keys the cache by the document of the row.
parseVectorForChunkByPdf(cache, chunk) ==
  Once(getCachedVector(cache, chunk.pdfId),
       LAMBDA cached :
         IF cached.hit
         THEN [vector |-> cached.value, cache |-> cached.cache]
         ELSE [vector |-> chunk.embedding,
               cache |-> setCache(cached.cache, chunk.pdfId, chunk.embedding)])

\* vectorService.parseVectorForChunk (284-300): the vector of a row, from the
\* cache or parsed from the row and then cached.  The embedding column holds
\* the JSON text of an array, so the parse gives an array, and an array,
\* empty or not, counts as a hit when it comes from the cache.
parseVectorForChunk(cache, chunk) ==
  Once(getCachedVector(cache, chunk.id),
       LAMBDA cached :
         IF cached.hit
         THEN [vector |-> cached.value, cache |-> cached.cache]
         ELSE [vector |-> chunk.embedding,
               cache |-> setCache(cached.cache, chunk.id, chunk.embedding)])

\* similaritySearch 305-307: rows.map calls parseVectorForChunk on the rows in
\* page order; the vectors of rows lo..hi and the cache after them, starting
\* from cache.  (The range is cut in halves, the first half scanned before
\* the second, to keep the evaluation shallow.)
RECURSIVE ScanRows(_, _, _, _)
ScanRows(cache, page, lo, hi) ==
  IF lo > hi
  THEN [vectors |-> <<>>, cache |-> cache]
  ELSE IF lo = hi
  THEN Once(parseVectorForChunk(cache, page[lo]),
            LAMBDA parsed : [vectors |-> <<parsed.vector>>, cache |-> parsed.cache])
  ELSE Once(ScanRows(cache, page, lo, (lo + hi) \div 2),
            LAMBDA first :
              Once(ScanRows(first.cache, page, (lo + hi) \div 2 + 1, hi),
                   LAMBDA second : [vectors |-> first.vectors \o second.vectors,
                                    cache |-> second.cache]))

\* similaritySearch 303-307: the page of limit rows from offset, the vector
\* parseVectorForChunk gives for each row, and the cache after the scan
ScanPage(rows, cache, sessionId, limit, offset, tie) ==
  Once(SelectChunksBySession(rows, sessionId, limit, offset, tie),
       LAMBDA page :
         Once(ScanRows(cache, page, 1, Len(page)),
              LAMBDA scan : [page |-> page, vectors |-> scan.vectors,
                             cache |-> scan.cache]))

\* similaritySearch 308-321: each row scored against the query, scores below
\* 0 dropped, sorted by descending score, cut to topK
RankPage(scan, queryEmbedding, topK) ==
  LET scored == [i \in 1..Len(scan.page) |->
                  [chunkId |-> scan.page[i].id, pdfId |-> scan.page[i].pdfId,
                   text |-> scan.page[i].text,
                   score |-> cosineSimilarity(queryEmbedding, scan.vectors[i])]]
      Kept(item) == ScoreNonNegative(item.score)
  IN Once(SelectSeq(scored, Kept), LAMBDA kept : SortDescSlice(kept, topK))

\* vectorService.similaritySearch (302-322): gives the candidates and the
\* cache as the scan leaves it.
similaritySearch(rows, cache, sessionId, queryEmbedding, topK, limit, offset, tie) ==
  Once(ScanPage(rows, cache, sessionId, limit, offset, tie),
       LAMBDA scan : [result |-> RankPage(scan, queryEmbedding, topK),
                      cache |-> scan.cache])

\* ------------------------------------------------------------ ragService
\* ragService FALLBACK_ANSWER, as one token
FALLBACK_ANSWER == <<"fallback">>

\* config/gemini isGeminiNotFoundError: the error is of the
\* "model unavailable" class
isGeminiNotFoundError(error) == error = "notFound"

ShouldTryNextAlways(error, i, n) == i < n

\* ragService 298-299 and 349-350: hasNext and the continue; i counts the
\* candidates from 1
ShouldTryNext(error, i, n) == isGeminiNotFoundError(error) /\ i < n

\* ragService 283-294 and 323-334: what Promise.race sets against the 25 s
\* timer is the backend call of generateContent, or the call that opens the
\* stream of generateContentStream; the for-await over the opened stream
\* (335-344) is outside the race
TimerArmed(attempt) == attempt \in {"calling", "opening"}

NeverShortCircuit(candidates) == FALSE

\* ragService 407 and 468: candidates.length === 0
NoCandidates(candidates) == Len(candidates) = 0

\* ragService normalizeAnswerPayload: the answer is the model's text, or
\* FALLBACK_ANSWER when that is empty
normalizeAnswerPayload(rawText) == IF rawText = <<>> THEN FALLBACK_ANSWER ELSE rawText

\* ragService 410-414, 439-449, 478-482 and 502-510: the returned payload
Payload(rawText, candidates) ==
  [kind |-> "answer", answer |-> normalizeAnswerPayload(rawText),
   sources |-> [k \in 1..Len(candidates) |->
                 [pdfId |-> candidates[k].pdfId, chunkId |-> candidates[k].chunkId,
                  score |-> candidates[k].score]],
   usedChunksCount |-> Len(candidates)]

\* ragService 425-437: runChatQuery catches what generateTextWithFallback
\* throws, logs it and goes on with rawAnswer = ''; runChatQueryStream
\* (491-494) has no catch.
GenerationCaught(mode) == mode = "plain"

\* --------------------------------------------------------- document records
\* pdfRecordService.createPdfRecord
NewPdf(sessionId, readable, n) ==
  [sessionId |-> sessionId, status |-> "processing", indexedChunks |-> 0,
   readable |-> readable, nchunks |-> n]

\* pdfRecordService.markPdfIndexed: UPDATE ... WHERE id = pdfId
MarkPdfIndexed(tbl, p, n) ==
  [tbl EXCEPT ![p].status = "indexed", ![p].indexedChunks = n]

\* pdfRecordService.markPdfFailed: UPDATE ... WHERE id = pdfId
MarkPdfFailed(tbl, p) ==
  [tbl EXCEPT ![p].status = "failed", ![p].indexedChunks = 0]

\* --------------------------------------------------------------- job queue
\* jobQueue.getJob
getJob(jobId) == IF jobId \in DOMAIN jobs THEN jobs[jobId] ELSE NoResult

\* jobQueue.js:51  maxRetries: payload.maxRetries || 2
MaxRetriesOf(arg) == IF arg = 0 THEN DefaultMaxRetries ELSE arg

\* jobQueue.js:45-57 the job object addJob creates
NewJob(type, target, maxRetriesArg) ==
  [type |-> type, target |-> target, status |-> "queued", attempts |-> 0,
   maxRetries |-> MaxRetriesOf(maxRetriesArg), result |-> NoResult,
   error |-> "null"]

\* A processQueue without its re-entrancy guard.
NeverRunning == FALSE

\* jobQueue.js:108 the guard of processQueue
AlreadyRunning == running

\* Retry tests a slip in the catch block would give: one attempt too many,
\* retrying without limit, never retrying.
RetryOneMore(job) == job.attempts <= job.maxRetries + 1
RetryAlways(job) == TRUE
RetryNever(job) == FALSE

\* jobQueue.js:140 the retry test of the catch block
RetryAllowed(job) == job.attempts <= job.maxRetries

\* jobQueue.runJob (68-105) up to the first suspension point of the handler:
\* indexPdfById awaits parseFile, a chatQuery job awaits runChatQuery.
\* Documents are never deleted here, so getPdfById finds the row, and only the
\* two job types the routes enqueue occur.
FirstAwait(job) == IF job.type = "indexPdf" THEN "parsing" ELSE "chat"

\* A start that does not count the attempt.
StartJobUncounted(job) == [job EXCEPT !.status = "processing"]

\* jobQueue.js:120-122 the job as the loop starts it
StartJob(job) == [job EXCEPT !.status = "processing", !.attempts = @ + 1]

\* jobQueue.js:113-127 the head of the while loop: leave when the lane is
\* empty, otherwise shift the next job, mark it processing, count the attempt
\* and call its handler, which runs up to its first await.
LoopTop(jb, qu) ==
  IF qu = <<>>
  THEN /\ jobs' = jb
       /\ queue' = qu
       /\ running' = FALSE
       /\ pc' = "idle"
       /\ cur' = 0
  ELSE LET j == Head(qu) IN
       /\ queue' = Tail(qu)
       /\ jobs' = [jb EXCEPT ![j] = StartJob(jb[j])]
       /\ running' = TRUE
       /\ cur' = j
       /\ pc' = FirstAwait(jb[j])

\* jobQueue.js:107-111 processQueue as addJob calls it
ProcessQueue(jb, qu) ==
  IF AlreadyRunning
  THEN /\ jobs' = jb
       /\ queue' = qu
       /\ UNCHANGED <<running, pc, cur>>
  ELSE LoopTop(jb, qu)

\* jobQueue.js:128-135 the handler returned: completed with its result
HandlerReturned(result) ==
  LoopTop([jobs EXCEPT ![cur].status = "completed", ![cur].result = result],
          queue)

\* A catch block that itself throws once it has kept the error: the
\* processQueue call ends there, with running still set.
HandlerThrewLoopDies(message) ==
  /\ jobs' = [jobs EXCEPT ![cur].error = message]
  /\ pc' = "idle"
  /\ cur' = 0
  /\ UNCHANGED <<queue, running>>

\* jobQueue.js:136-152 the handler threw: keep the error, then requeue after
\* the backoff wait or fail for good.  The text of error.message is kept as
\* the one token "thrown".
HandlerThrew(message) ==
  LET jb == [jobs EXCEPT ![cur].error = message] IN
  IF RetryAllowed(jb[cur])
  THEN /\ jobs' = [jb EXCEPT ![cur].status = "queued"]
       /\ pc' = "backoff"
       /\ UNCHANGED <<queue, running, cur>>
  ELSE LoopTop([jb EXCEPT ![cur].status = "failed"], queue)

TypeOK ==
  /\ running \in BOOLEAN
  /\ pc \in {"idle", "parsing", "embedding", "chat", "generating", "backoff"}
  /\ cur \in 0..MaxJobs
  /\ sequence \in 1..(MaxJobs + 1)

Init ==
  /\ queue = <<>>
  /\ jobs = <<>>
  /\ running = FALSE
  /\ sequence = 1
  /\ pc = "idle"
  /\ cur = 0
  /\ plan = <<>>
  /\ pdfs = <<>>
  /\ chunks = <<>>
  /\ clock = 1
  /\ lastSearch = NoSearch
  /\ embeddingCache = EmptyCache
  /\ call = NoCall
  /\ answer = NoAnswer
  /\ streams = [r \in Requests |-> NoStream]
  /\ history = <<>>
  /\ progress = NoProgress
  /\ tables = NoTables
  /\ refresh = NoRefresh
  /\ auth = NoAuth
  /\ params = NoParams

\* jobQueue.addJob (43-66): store the job, push its id, kick processQueue.
AddJob(type, target, maxRetriesArg, failures) ==
  /\ sequence <= MaxJobs
  /\ sequence' = sequence + 1
  /\ plan' = Append(plan, failures)
  /\ ProcessQueue(Append(jobs, NewJob(type, target, maxRetriesArg)),
                  Append(queue, sequence))

\* POST /sessions/:sessionId/pdfs: createPdfRecord, then addJob(indexPdf).
\* The job engine is driven within one session, session 1.  A file without
\* readable text has no chunks, and every parse of it throws.
Upload ==
  \E readable \in BOOLEAN, n \in {0, MaxChunks}, r \in 0..MaxRetriesArg :
  \E f \in 0..(MaxRetriesOf(r) + 1) :
    /\ Len(pdfs) < MaxPdfs
    /\ ~readable => (n = 0 /\ f = MaxRetriesOf(r) + 1)
    /\ pdfs' = Append(pdfs, NewPdf(1, readable, n))
    /\ AddJob("indexPdf", Len(pdfs) + 1, r, f)
    /\ UNCHANGED <<chunks, clock, lastSearch, embeddingCache, call, answer, streams,
                   history, progress, tables, refresh, auth, params>>

\* POST /sessions/:sessionId/chat when shouldRunAsyncChat: addJob(chatQuery)
ChatAsync ==
  \E r \in 0..MaxRetriesArg :
  \E f \in 0..(MaxRetriesOf(r) + 1) :
    /\ AddJob("chatQuery", 1, r, f)
    /\ UNCHANGED <<pdfs, chunks, clock, lastSearch, embeddingCache, call, answer, streams,
                   history, progress, tables, refresh, auth, params>>

\* indexingService.toChunkKey: sha1 of "index:text", an injective digest
toChunkKey(index, text) == <<index, text>>

\* indexingService.indexPdfById 101-105: one item per chunk, text paired with
\* its vector and its chunk key
ItemsOf(n) ==
  [i \in 1..n |-> [text |-> i, embedding |-> EmbeddingOf(i),
                   chunkKey |-> toChunkKey(i - 1, i)]]

IndexResult(n, failed) == [kind |-> "index", indexedChunks |-> n, failed |-> failed]

\* parsers/utils ensureTextNotEmpty: the parser throws when the text it
\* extracted is empty after sanitizing.
TextIsEmpty(pdf) == ~pdf.readable

\* indexPdfById 75-89: parseFile settled.  It rejects (an I/O failure, or
\* ensureTextNotEmpty threw; catch block 128-135: markPdfFailed, rethrow), or
\* it resolves and chunkText cuts the text: zero chunks mark the document
\* failed and RETURN a result, otherwise the handler suspends again in
\* generateEmbeddings.
ParseRejected ==
  /\ pc = "parsing"
  /\ plan[cur] > 0
  /\ plan' = [plan EXCEPT ![cur] = @ - 1]
  /\ pdfs' = MarkPdfFailed(pdfs, jobs[cur].target)
  /\ HandlerThrew("thrown")
  /\ UNCHANGED <<sequence, chunks, clock, lastSearch, embeddingCache, call, answer,
                 streams, history, progress, tables, refresh, auth, params>>

ParseResolved ==
  /\ pc = "parsing"
  /\ ~TextIsEmpty(pdfs[jobs[cur].target])
  /\ LET p == jobs[cur].target
         n == pdfs[p].nchunks IN
     IF n = 0
     THEN /\ plan[cur] = 0
          /\ pdfs' = MarkPdfFailed(pdfs, p)
          /\ HandlerReturned(IndexResult(0, TRUE))
          /\ UNCHANGED <<sequence, plan, chunks, clock, lastSearch, embeddingCache, call,
                         answer, streams, history, progress, tables, refresh,
                         auth, params>>
     ELSE /\ pc' = "embedding"
          /\ UNCHANGED <<queue, jobs, running, sequence, cur, plan, pdfs, chunks,
                         clock, lastSearch, embeddingCache, call, answer,
                         streams, history, progress, tables, refresh, auth,
                         params>>

\* An indexPdfById that deletes the rows of the document before it awaits
\* the embeddings.
EmbedRejectedAfterDelete ==
  /\ pc = "embedding"
  /\ plan[cur] > 0
  /\ plan' = [plan EXCEPT ![cur] = @ - 1]
  /\ pdfs' = MarkPdfFailed(pdfs, jobs[cur].target)
  /\ chunks' = LET Other(r) == r.pdfId # jobs[cur].target IN SelectSeq(chunks, Other)
  /\ HandlerThrew("embedding")
  /\ UNCHANGED <<sequence, clock, lastSearch, embeddingCache, call, answer,
                 streams, history, progress, tables, refresh, auth, params>>

\* indexPdfById 93-99 and 128-135: generateEmbeddings rejected, before
\* addChunks (107) was reached; the catch marks the document failed and
\* rethrows the error of the embedding step
EmbedRejected ==
  /\ pc = "embedding"
  /\ plan[cur] > 0
  /\ plan' = [plan EXCEPT ![cur] = @ - 1]
  /\ pdfs' = MarkPdfFailed(pdfs, jobs[cur].target)
  /\ HandlerThrew("embedding")
  /\ UNCHANGED <<sequence, chunks, clock, lastSearch, embeddingCache, call, answer,
                 streams, history, progress, tables, refresh, auth, params>>

\* indexPdfById 107-112 and 128-135: addChunks threw, its transaction inserted
\* nothing
StoreRejected ==
  /\ pc = "embedding"
  /\ plan[cur] > 0
  /\ plan' = [plan EXCEPT ![cur] = @ - 1]
  /\ pdfs' = MarkPdfFailed(pdfs, jobs[cur].target)
  /\ HandlerThrew("thrown")
  /\ UNCHANGED <<sequence, chunks, clock, lastSearch, embeddingCache, call, answer,
                 streams, history, progress, tables, refresh, auth, params>>

\* indexPdfById 107-114 and 128-135: addChunks committed, then the UPDATE of
\* markPdfIndexed threw
MarkRejected ==
  /\ pc = "embedding"
  /\ plan[cur] > 0
  /\ plan' = [plan EXCEPT ![cur] = @ - 1]
  /\ LET p == jobs[cur].target IN
     /\ chunks' = AddChunks(chunks, pdfs[p].sessionId, p, ItemsOf(pdfs[p].nchunks),
                            TRUE, clock)
     /\ pdfs' = MarkPdfFailed(pdfs, p)
  /\ clock' = clock + 1
  /\ HandlerThrew("thrown")
  /\ UNCHANGED <<sequence, lastSearch, embeddingCache, call, answer, streams, history,
                 progress, tables, refresh, auth, params>>

\* indexPdfById 93-127: embeddings arrived, addChunks(replacePdfChunks: true),
\* markPdfIndexed with the inserted count, result returned
EmbedResolved ==
  /\ pc = "embedding"
  /\ plan[cur] = 0
  /\ LET p == jobs[cur].target
         n == pdfs[p].nchunks IN
     /\ chunks' = AddChunks(chunks, pdfs[p].sessionId, p, ItemsOf(n), TRUE, clock)
     /\ pdfs' = MarkPdfIndexed(pdfs, p, n)
     /\ HandlerReturned(IndexResult(n, FALSE))
  /\ clock' = clock + 1
  /\ UNCHANGED <<sequence, plan, lastSearch, embeddingCache, call, answer, streams,
                 history, progress, tables, refresh, auth, params>>

\* Which statement of the persistence in runJob throws: none, or the INSERT of
\* the assistant turn, the one between the two appends.  (A throw of the
\* first INSERT leaves the table as a throw of runChatQuery does, which
\* ChatRejected follows; a throw of touchSession is not followed.)
PersistSteps == {"none", "assistant"}

\* jobQueue.runJob 86-100: addMessage of the user turn, addMessage of the
\* assistant turn, touchSession, three statements each run on its own, in no
\* transaction.  failAt is the statement that throws ("none": none does); the
\* rows inserted before it stay.  A row is kept as the job whose message it
\* belongs to and its role.
PersistTurns(rows, j, failAt) ==
  IF failAt = "user"
  THEN rows
  ELSE IF failAt = "assistant"
  THEN Append(rows, [request |-> j, role |-> "user"])
  ELSE rows \o <<[request |-> j, role |-> "user"], [request |-> j, role |-> "assistant"]>>

\* jobQueue.runJob 84-101: runChatQuery resolved with response; the turns are
\* persisted and the response returned, or a statement throws out of runJob.
ChatResponded(response) ==
  \E failAt \in PersistSteps :
    /\ (failAt = "none") <=> (plan[cur] = 0)
    /\ history' = PersistTurns(history, cur, failAt)
    /\ IF failAt = "none"
       THEN /\ plan' = plan
            /\ HandlerReturned(response)
       ELSE /\ plan' = [plan EXCEPT ![cur] = @ - 1]
            /\ HandlerThrew("thrown")

\* jobQueue.runJob 83-102 awaits runChatQuery(job.payload); ragService
\* 400-423: retrieval settled.  With no candidates the canned payload is the
\* response; otherwise the handler goes on to await
\* generateTextWithFallback, its candidates kept in call.
ChatRetrieved ==
  /\ pc = "chat"
  /\ UNCHANGED <<sequence, pdfs, chunks, clock, lastSearch, answer, streams,
                 progress, tables, refresh, auth, params>>
  /\ \E tie \in {"asc", "desc"} :
       \E found \in {similaritySearch(chunks, embeddingCache, jobs[cur].target, Needle,
                                      DefaultTopK, DefaultLimit, 0, tie)} :
         /\ embeddingCache' = found.cache
         /\ IF NoCandidates(found.result)
            THEN /\ ChatResponded(Payload(<<>>, <<>>))
                 /\ call' = call
            ELSE /\ pc' = "generating"
                 /\ call' = [NoCall EXCEPT !.phase = "generating", !.retrieved = TRUE,
                                           !.candidates = found.result,
                                           !.generation = "pending"]
                 /\ UNCHANGED <<queue, jobs, running, cur, plan, history>>

\* ragService 430 and 439-449: generateTextWithFallback resolved
ChatGenerationResolved ==
  \E text \in {<<>>, <<"t">>} :
    /\ pc = "generating"
    /\ ChatResponded(Payload(text, call.candidates))
    /\ call' = NoCall
    /\ UNCHANGED <<sequence, pdfs, chunks, clock, lastSearch, embeddingCache,
                   answer, streams, progress, tables, refresh, auth, params>>

\* ragService 295-312 and 433-449: generateTextWithFallback threw its
\* generation error (a timeout, a failed request, no model left) and the
\* catch of runChatQuery ran
ChatGenerationFailed ==
  /\ pc = "generating"
  /\ IF GenerationCaught("plain")
     THEN ChatResponded(Payload(<<>>, call.candidates))
     ELSE HandlerThrew("thrown") /\ UNCHANGED <<plan, history>>
  /\ call' = NoCall
  /\ UNCHANGED <<sequence, pdfs, chunks, clock, lastSearch, embeddingCache,
                 answer, streams, progress, tables, refresh, auth, params>>

\* ragService 371 and jobQueue.runJob 84: retrieval rejected, nothing in the
\* handler catches it
ChatRejected ==
  /\ pc = "chat"
  /\ plan[cur] > 0
  /\ plan' = [plan EXCEPT ![cur] = @ - 1]
  /\ HandlerThrew("thrown")
  /\ UNCHANGED <<sequence, pdfs, chunks, clock, lastSearch, embeddingCache, call,
                 answer, streams, history, progress, tables, refresh, auth,
                 params>>

RequeueAtHead(qu, j) == <<j>> \o qu

\* jobQueue.js:146 queue.push(job.id)
Requeue(qu, j) == Append(qu, j)

\* jobQueue.js:145-146: the backoff timer fired; the job re-enters the lane at
\* the tail and the loop goes on
BackoffElapsed ==
  /\ pc = "backoff"
  /\ LoopTop(jobs, Requeue(queue, cur))
  /\ UNCHANGED <<sequence, plan, pdfs, chunks, clock, lastSearch, embeddingCache, call,
                 answer, streams, history, progress, tables, refresh, auth,
                 params>>

HandlerStep ==
  \/ ParseRejected
  \/ ParseResolved
  \/ EmbedRejected
  \/ StoreRejected
  \/ MarkRejected
  \/ EmbedResolved
  \/ ChatRetrieved
  \/ ChatGenerationResolved
  \/ ChatGenerationFailed
  \/ ChatRejected

Next ==
  \/ Upload
  \/ ChatAsync
  \/ ParseRejected
  \/ ParseResolved
  \/ EmbedRejected
  \/ StoreRejected
  \/ MarkRejected
  \/ EmbedResolved
  \/ ChatRetrieved
  \/ ChatGenerationResolved
  \/ ChatGenerationFailed
  \/ ChatRejected
  \/ BackoffElapsed

Spec == Init /\ [][Next]_vars

\* Every handler call and every backoff wait terminates, and the loop is
\* scheduled when its promise or timer has settled.
FairSpec == Spec /\ WF_vars(HandlerStep) /\ WF_vars(BackoffElapsed)

\* Process exit and boot: the module state of jobQueue.js (7-10) and of
\* vectorService (the cache) is built anew, nothing in the module reads jobs
\* back; the SQLite tables stay.  Restarts are followed while the chat
\* history has fewer than MaxTurns rows.
Restart ==
  /\ jobs # <<>>
  /\ Len(history) < MaxTurns
  /\ queue' = <<>>
  /\ jobs' = <<>>
  /\ running' = FALSE
  /\ sequence' = 1
  /\ pc' = "idle"
  /\ cur' = 0
  /\ plan' = <<>>
  /\ embeddingCache' = EmptyCache
  /\ call' = NoCall
  /\ UNCHANGED <<pdfs, chunks, clock, lastSearch, answer, streams, history, progress,
                 tables, refresh, auth, params>>

NextRestart ==
  \/ Upload
  \/ ChatAsync
  \/ ParseRejected
  \/ ParseResolved
  \/ EmbedRejected
  \/ StoreRejected
  \/ MarkRejected
  \/ EmbedResolved
  \/ ChatRetrieved
  \/ ChatGenerationResolved
  \/ ChatGenerationFailed
  \/ ChatRejected
  \/ BackoffElapsed
  \/ Restart

SpecRestart == Init /\ [][NextRestart]_vars

\* ------------------------------------------------------------------ claims
JobIds == 1..MaxJobs
Processing == {j \in DOMAIN jobs : jobs[j].status = "processing"}

\* Handler executions of job j that have ended in a throw.
FailedRuns(j) ==
  IF jobs[j].status \in {"processing", "completed"}
  THEN jobs[j].attempts - 1
  ELSE jobs[j].attempts

\* How many times the handler of job j throws before it returns, over the
\* whole life of the job.
Failures(j) ==
  IF jobs[j].status = "completed" THEN FailedRuns(j) ELSE plan[j] + FailedRuns(j)

\* C1: at most one job has status processing at any time, and that job is the
\* one the single processQueue loop is running the handler of.
C1_SingleLane ==
  /\ Cardinality(Processing) <= 1
  /\ \A j \in Processing : running /\ cur = j /\ pc \in {"parsing", "embedding", "chat", "generating"}

\* A retried job's handler runs while another job waits in the lane.
C1_Witness ==
  /\ Processing # {}
  /\ queue # <<>>
  /\ \E j \in Processing : jobs[j].attempts >= 2

C3_AlwaysFailingJobFails ==
  /\ \A j \in JobIds :
       (j \in DOMAIN jobs /\ Failures(j) > jobs[j].maxRetries)
         ~> (getJob(j) # NoResult /\ getJob(j).status = "failed")
  /\ [][\A j \in DOMAIN jobs :
          jobs[j].status = "failed" =>
            /\ jobs[j].error # "null"
            /\ j \in DOMAIN jobs'
            /\ jobs'[j] = jobs[j]]_vars

\* A job has failed for good and the loop has gone on to another job.
C3_Witness ==
  /\ \E j \in DOMAIN jobs : jobs[j].status = "failed" /\ jobs[j].error # "null"
  /\ Processing # {}

\* C4: a job whose handler fails fewer than maxRetries times and then succeeds
\* is requeued after every failure and eventually is completed with the
\* handler's result.
C4_RetriedJobCompletes ==
  /\ \A j \in JobIds :
       (j \in DOMAIN jobs /\ Failures(j) < jobs[j].maxRetries)
         ~> (j \in DOMAIN jobs /\ jobs[j].status = "completed" /\ jobs[j].result # NoResult)
  /\ [][\A j \in DOMAIN jobs :
          (/\ Failures(j) < jobs[j].maxRetries
           /\ jobs[j].status = "processing"
           /\ jobs'[j].status \notin {"processing", "completed"})
            => jobs'[j].status = "queued"]_vars

\* A job completed on its second or later attempt.
C4_Witness ==
  \E j \in DOMAIN jobs :
    /\ jobs[j].status = "completed"
    /\ jobs[j].attempts >= 2
    /\ jobs[j].attempts <= jobs[j].maxRetries
    /\ jobs[j].result # NoResult

\* C5 (as claimed): a restart puts every job that was queued or processing
\* back in the job store and in the pending lane with status queued.
C5_RestartReloadsJobs ==
  [][Restart =>
       \A j \in DOMAIN jobs :
         jobs[j].status \in {"queued", "processing"} =>
           /\ j \in DOMAIN jobs'
           /\ jobs'[j].status = "queued"
           /\ j \in Range(queue')]_vars

RowsOfPdf(p) == {chunks[i] : i \in {k \in DOMAIN chunks : chunks[k].pdfId = p}}

\* Position (from 0) of a row in the batch that inserted it, and the
\* idempotency key indexPdfById computed for it.
PositionInBatch(r) ==
  Cardinality({q \in RowsOfPdf(r.pdfId) : q.createdAt = r.createdAt /\ q.id < r.id})
KeyOfRow(r) == toChunkKey(PositionInBatch(r), r.text)

\* C7 (as claimed): the segments a document owns are those of one batch, the
\* newest addChunks(replacePdfChunks = true) for it, and no two of them have
\* the same (documentId, idempotencyKey).
C7_ReindexKeepsNewBatchOnly ==
  \A p \in DOMAIN pdfs :
    \A r1, r2 \in RowsOfPdf(p) :
      /\ r1.createdAt = r2.createdAt
      /\ r1.id # r2.id => KeyOfRow(r1) # KeyOfRow(r2)

\* C9 (as claimed): a document's status changes only from processing to
\* indexed or from processing to failed.
C9_StatusOnlyLeavesProcessing ==
  [][\A p \in DOMAIN pdfs :
       pdfs'[p].status # pdfs[p].status =>
         /\ pdfs[p].status = "processing"
         /\ pdfs'[p].status \in {"indexed", "failed"}]_vars

\* C10 (as claimed): an attempt of an indexPdf job throws exactly when it
\* leaves its document failed: the job of an attempt that marked the document
\* failed is requeued or failed with the error, never completed.
C10_StepFailureFailsHandler ==
  [][\A j \in DOMAIN jobs :
       (/\ jobs[j].type = "indexPdf"
        /\ jobs[j].status = "processing"
        /\ jobs'[j].status # "processing")
         => (pdfs'[jobs[j].target].status = "failed"
               <=> (jobs'[j].status \in {"queued", "failed"} /\ jobs'[j].error # "null"))]_vars

\* An upload whose indexing can only end in a validation failure: the file has
\* no readable text, or its text gives zero chunks and nothing else goes
\* wrong.
ValidationFailure(j) ==
  /\ jobs[j].type = "indexPdf"
  /\ \/ TextIsEmpty(pdfs[jobs[j].target])
     \/ pdfs[jobs[j].target].nchunks = 0 /\ Failures(j) = 0

\* C11 (as claimed): the handler of an indexPdf job that fails on empty
\* extracted text or on zero chunks runs exactly once: the job never has a
\* second attempt, and once the first attempt is over the document is failed.
C11_ValidationFailureRunsOnce ==
  \A j \in DOMAIN jobs :
    ValidationFailure(j) =>
      /\ jobs[j].attempts <= 1
      /\ (jobs[j].attempts = 1 /\ jobs[j].status # "processing")
           => pdfs[jobs[j].target].status = "failed"

\* C12 (as claimed): a failed document has indexedChunks = 0 and owns no row
\* of the chunks table.
C12_FailedDocumentOwnsNothing ==
  \A p \in DOMAIN pdfs :
    pdfs[p].status = "failed" =>
      /\ pdfs[p].indexedChunks = 0
      /\ RowsOfPdf(p) = {}

\* C19: a generation failure is not swallowed: when the generation backend
\* call of a chat job fails, the job's handler fails, so the job is requeued
\* with backoff or marked failed, never completed.
C19_GenerationFailureFailsJob ==
  [][\A j \in DOMAIN jobs :
       (cur = j /\ ChatGenerationFailed) => jobs'[j].status \in {"queued", "failed"}]_vars

\* ------------------------------------------------- vector store, direct use
\* The batches the store is loaded with directly, as the tests do: count items
\* with the same vector.
BatchKinds ==
  {[vec |-> v, count |-> 1] : v \in {Needle, Filler, Diag, ZeroVec, Short}}
    \cup {[vec |-> Filler, count |-> DefaultLimit]}

ItemsOfKind(kind) ==
  [i \in 1..kind.count |-> [text |-> 0, embedding |-> kind.vec, chunkKey |-> toChunkKey(i - 1, 0)]]

\* addChunks({ sessionId, pdfId: null, items, replacePdfChunks }) called
\* directly.  The search recorded for the table as it was is dropped.
AddChunksCall ==
  \E s \in Sessions, kind \in BatchKinds, replace \in BOOLEAN :
    /\ clock <= MaxBatches
    /\ chunks' = AddChunks(chunks, s, 0, ItemsOfKind(kind), replace, clock)
    /\ clock' = clock + 1
    /\ lastSearch' = NoSearch
    /\ UNCHANGED <<queue, jobs, running, sequence, pc, cur, plan, pdfs, embeddingCache, call,
                   answer, streams, history, progress, tables, refresh, auth,
                   params>>

\* similaritySearch({ sessionId, queryEmbedding, topK, pageSize }) as
\* retrieveCandidates (ragService 366-391) and the retrieval test call it:
\* pageSize is no parameter of the function, limit and offset take their
\* defaults.  A search changes no table; one search is recorded per state of
\* the table.  (The scan of similaritySearch does not depend on the query and
\* topK, so it is computed once for all of them.)
SearchCall ==
  /\ lastSearch = NoSearch
  /\ \E s \in Sessions, tie \in {"asc", "desc"} :
       LET scan == ScanPage(chunks, embeddingCache, s, DefaultLimit, 0, tie) IN
       /\ embeddingCache' = scan.cache
       /\ \E q \in {Needle, Diag}, topK \in {1, DefaultTopK}, pageSize \in {1, 100} :
            lastSearch' = [at |-> clock, sessionId |-> s, query |-> q, topK |-> topK,
                           pageSize |-> pageSize, tie |-> tie,
                           result |-> RankPage(scan, q, topK)]
  /\ UNCHANGED <<queue, jobs, running, sequence, pc, cur, plan, pdfs, chunks, clock, call,
                 answer, streams, history, progress, tables, refresh, auth,
                 params>>

NextStore ==
  \/ AddChunksCall
  \/ SearchCall

SpecStore == Init /\ [][NextStore]_vars

\* The search just made saw the table as it is now.
SearchIsFresh == lastSearch # NoSearch /\ lastSearch.at = clock

\* The scores of all rows of a session against a query.
SessionScores(s, q) ==
  {cosineSimilarity(q, chunks[i].embedding) :
     i \in {k \in DOMAIN chunks : chunks[k].sessionId = s}}

\* C6 (as claimed): a topK = 1 search returns the segment with the highest
\* score of the whole session, whatever the corpus size and pageSize.
C6_SearchFindsGlobalBest ==
  (SearchIsFresh /\ lastSearch.topK = 1) =>
    LET all == {x \in SessionScores(lastSearch.sessionId, lastSearch.query) :
                  ScoreNonNegative(x)}
    IN all # {} =>
         /\ Len(lastSearch.result) = 1
         /\ \A x \in all : ~ScoreLess(lastSearch.result[1].score, x)

\* ------------------------------------------------------------- ranking
\* The store of one session loaded with one or two rows at a time, of vectors
\* that match the query, are orthogonal to it, point away from it, have no
\* magnitude or have another dimension, and searched with queries of the
\* same kinds.
RankKinds ==
  {[vec |-> v, count |-> 1] : v \in {Needle, Filler, Diag, ZeroVec, Short, Opposite, Obtuse}}
    \cup {[vec |-> Needle, count |-> 2]}

RankLoad ==
  \E kind \in RankKinds :
    /\ clock <= MaxBatches
    /\ chunks' = AddChunks(chunks, 1, 0, ItemsOfKind(kind), FALSE, clock)
    /\ clock' = clock + 1
    /\ lastSearch' = NoSearch
    /\ UNCHANGED <<queue, jobs, running, sequence, pc, cur, plan, pdfs, embeddingCache, call,
                   answer, streams, history, progress, tables, refresh, auth,
                   params>>

RankSearch ==
  \E q \in {Needle, Diag, ZeroVec, Short}, topK \in {1, 2, DefaultTopK},
     tie \in {"asc", "desc"} :
    /\ lastSearch = NoSearch
    /\ LET found == similaritySearch(chunks, embeddingCache, 1, q, topK, DefaultLimit, 0, tie)
       IN /\ lastSearch' = [at |-> clock, sessionId |-> 1, query |-> q, topK |-> topK,
                            pageSize |-> 100, tie |-> tie, result |-> found.result]
          /\ embeddingCache' = found.cache
    /\ UNCHANGED <<queue, jobs, running, sequence, pc, cur, plan, pdfs, chunks, clock, call,
                   answer, streams, history, progress, tables, refresh, auth,
                   params>>

NextRank ==
  \/ RankLoad
  \/ RankSearch

SpecRank == Init /\ [][NextRank]_vars

SquaredMagnitude(v) == SumTo([i \in 1..Len(v) |-> v[i] * v[i]], Len(v))

\* The similarity of two vectors is defined: same dimension, and neither has
\* magnitude zero.
SimilarityDefined(a, b) ==
  /\ Len(a) = Len(b)
  /\ SquaredMagnitude(a) # 0
  /\ SquaredMagnitude(b) # 0

\* The page the recorded search scanned, in scan order.
ScannedPage ==
  SelectChunksBySession(chunks, lastSearch.sessionId, DefaultLimit, 0, lastSearch.tie)

\* C15: no row whose similarity to the query is undefined is among the
\* results of a search, so none is ranked at all, with score 0 or otherwise.
C15_UndefinedSimilarityExcluded ==
  SearchIsFresh =>
    \A i \in 1..Len(lastSearch.result) :
      /\ SimilarityDefined(lastSearch.query, chunks[lastSearch.result[i].chunkId].embedding)
      /\ lastSearch.result[i].score # Invalid

\* A search returned a match while a row of the session has no defined
\* similarity to the query.
C15_Witness ==
  /\ SearchIsFresh
  /\ lastSearch.result # <<>>
  /\ \E i \in DOMAIN chunks :
       /\ chunks[i].sessionId = lastSearch.sessionId
       /\ ~SimilarityDefined(lastSearch.query, chunks[i].embedding)

ScoreEqual(x, y) == x.num * y.den = y.num * x.den

\* C16: the result of a search is the topK first of the scanned rows with a
\* score of 0 or more (all of them when they are fewer), in descending score,
\* rows of equal score in scan order; no such row left out has a higher
\* score than a returned one, nor an equal score and an earlier scan
\* position.
C16_TopKSortedStable ==
  SearchIsFresh =>
    LET page == ScannedPage
        res == lastSearch.result
        ScoreAt(n) == cosineSimilarity(lastSearch.query, page[n].embedding)
        cand == {n \in 1..Len(page) : ScoreNonNegative(ScoreAt(n))}
        PosOf(i) == CHOOSE n \in 1..Len(page) : page[n].id = res[i].chunkId
        Before(m, n) ==     \* row m ranks before row n
          \/ ScoreLess(ScoreAt(n), ScoreAt(m))
          \/ ScoreEqual(ScoreAt(n), ScoreAt(m)) /\ m < n
    IN /\ Len(res) = Min(lastSearch.topK, Cardinality(cand))
       /\ \A i \in 1..Len(res) :
            /\ \E n \in cand : page[n].id = res[i].chunkId
            /\ res[i].score = ScoreAt(PosOf(i))
       /\ \A i, j \in 1..Len(res) : i < j => Before(PosOf(i), PosOf(j))
       /\ \A n \in cand :
            (\A i \in 1..Len(res) : PosOf(i) # n)
              => \A i \in 1..Len(res) : Before(PosOf(i), n)

\* A search cut its candidates to topK, leaving out a row with the same score
\* as a returned one.
C16_Witness ==
  /\ SearchIsFresh
  /\ Len(lastSearch.result) = lastSearch.topK
  /\ \E i \in DOMAIN chunks :
       /\ chunks[i].sessionId = lastSearch.sessionId
       /\ \A k \in 1..Len(lastSearch.result) : lastSearch.result[k].chunkId # i
       /\ ScoreEqual(cosineSimilarity(lastSearch.query, chunks[i].embedding),
                     lastSearch.result[Len(lastSearch.result)].score)

\* ------------------------------------------------------ embedding cache
\* The store loaded with whole pages of rows, and searched again and again:
\* the calls that fill the cache, hit it and make it evict.
PageKinds == {[vec |-> Filler, count |-> DefaultLimit]}

CacheLoad ==
  \E s \in Sessions, kind \in PageKinds :
    /\ clock <= MaxBatches
    /\ chunks' = AddChunks(chunks, s, 0, ItemsOfKind(kind), FALSE, clock)
    /\ clock' = clock + 1
    /\ UNCHANGED <<queue, jobs, running, sequence, pc, cur, plan, pdfs, lastSearch,
                   embeddingCache, call, answer, streams, history, progress,
                   tables, refresh, auth, params>>

CacheSearch ==
  \E s \in Sessions, tie \in {"asc", "desc"} :
    LET found == similaritySearch(chunks, embeddingCache, s, Needle, DefaultTopK,
                                  DefaultLimit, 0, tie)
    IN /\ lastSearch' = [at |-> clock, sessionId |-> s, query |-> Needle,
                         topK |-> DefaultTopK, pageSize |-> 100, tie |-> tie,
                         result |-> found.result]
       /\ embeddingCache' = found.cache
       /\ UNCHANGED <<queue, jobs, running, sequence, pc, cur, plan, pdfs, chunks, clock, call,
                      answer, streams, history, progress, tables, refresh,
                      auth, params>>

NextCache ==
  \/ CacheLoad
  \/ CacheSearch

SpecCache == Init /\ [][NextCache]_vars

CacheKeys(cache) == [i \in 1..Len(cache.entries) |-> cache.entries[i].id]

\* C13: the embedding cache never holds more than EMBEDDING_CACHE_LIMIT
\* entries, and no chunk id twice.
C13_CacheWithinLimit ==
  /\ Len(embeddingCache.entries) <= EMBEDDING_CACHE_LIMIT
  /\ Cardinality(embeddingCache.keys) = Len(embeddingCache.entries)
  /\ embeddingCache.keys = Range(CacheKeys(embeddingCache))

\* The cache is full although more rows than the limit exist: rows were
\* cached and evicted.
C13_Witness ==
  /\ Len(embeddingCache.entries) = EMBEDDING_CACHE_LIMIT
  /\ Len(chunks) > EMBEDDING_CACHE_LIMIT

\* The ids of the rows a search step reads, in scan order.
ScannedIds ==
  LET page == SelectChunksBySession(chunks, lastSearch'.sessionId, DefaultLimit, 0,
                                    lastSearch'.tie)
  IN [i \in 1..Len(page) |-> page[i].id]

\* C14: the cache order is the order of last use.  A search step leaves the
\* rows it read (cached anew or hit) as the newest entries, in the order it
\* read them; the entries it did not read keep their order before those, and
\* the ones evicted are exactly the oldest of them, as many as the limit
\* forces.  A step that is no search touches the cache only by emptying it
\* (a restart).
C14_EvictsLeastRecentlyUsed ==
  [][IF lastSearch' # NoSearch /\ lastSearch' # lastSearch
     THEN \A read \in {ScannedIds}, new \in {CacheKeys(embeddingCache')} :
            LET old == CacheKeys(embeddingCache)
                readSet == Range(read)
                Unread(id) == id \notin readSet
                kept == SelectSeq(old, Unread)
                k == Len(read)
                rest == Len(new) - k
            IN /\ rest >= 0
               /\ SubSeq(new, rest + 1, Len(new)) = read
               /\ rest = Min(Len(kept), EMBEDDING_CACHE_LIMIT - k)
               /\ SubSeq(new, 1, rest) = SubSeq(kept, Len(kept) - rest + 1, Len(kept))
     ELSE embeddingCache' \in {embeddingCache, EmptyCache}]_vars

\* The cache is full after a search: the rows of the session searched are
\* its newest entries, and its oldest entry is a row of another session, one
\* that the evictions have not reached.
C14_Witness ==
  /\ lastSearch # NoSearch
  /\ lastSearch.at = clock
  /\ Len(embeddingCache.entries) = EMBEDDING_CACHE_LIMIT
  /\ chunks[embeddingCache.entries[1].id].sessionId # lastSearch.sessionId
  /\ chunks[embeddingCache.entries[EMBEDDING_CACHE_LIMIT].id].sessionId
       = lastSearch.sessionId

\* ------------------------------------------------ a reader beside indexing
\* POST /sessions/:sessionId/chat answered inline: runChatQuery calls
\* retrieveCandidates, which calls similaritySearch on the session between
\* two steps of the job loop.  One such search is recorded per behaviour.
SearchInline ==
  \E tie \in {"asc", "desc"} :
    /\ lastSearch = NoSearch
    /\ LET found == similaritySearch(chunks, embeddingCache, 1, Needle, DefaultTopK,
                                     DefaultLimit, 0, tie)
       IN /\ lastSearch' = [at |-> clock, sessionId |-> 1, query |-> Needle,
                            topK |-> DefaultTopK, pageSize |-> 100, tie |-> tie,
                            result |-> found.result]
          /\ embeddingCache' = found.cache
    /\ UNCHANGED <<queue, jobs, running, sequence, pc, cur, plan, pdfs, chunks, clock, call,
                   answer, streams, history, progress, tables, refresh, auth,
                   params>>

NextIndexSearch ==
  \/ Upload
  \/ ChatAsync
  \/ ParseRejected
  \/ ParseResolved
  \/ EmbedRejected
  \/ StoreRejected
  \/ MarkRejected
  \/ EmbedResolved
  \/ ChatRetrieved
  \/ ChatGenerationResolved
  \/ ChatGenerationFailed
  \/ ChatRejected
  \/ BackoffElapsed
  \/ SearchInline

SpecIndexSearch == Init /\ [][NextIndexSearch]_vars

\* The rows of document p the recorded search read.
ObservedOfPdf(p) ==
  LET page == SelectChunksBySession(chunks, lastSearch.sessionId, DefaultLimit, 0,
                                    lastSearch.tie)
  IN {page[i] : i \in {k \in DOMAIN page : page[k].pdfId = p}}

\* C8 (as claimed): a search sees, of each document, the rows of exactly one
\* addChunks batch: all of them, none of another batch, and not nothing while
\* the document has rows.
C8_ReaderSeesOneBatch ==
  SearchIsFresh =>
    \A p \in DOMAIN pdfs :
      LET seen == ObservedOfPdf(p) IN
      /\ seen = {} => RowsOfPdf(p) = {}
      /\ \A r1, r2 \in seen : r1.createdAt = r2.createdAt
      /\ \A r \in seen :
           \A q \in RowsOfPdf(p) : q.createdAt = r.createdAt => q \in seen

\* ------------------------------------------- a chat answered by the route
\* POST /sessions/:sessionId/chat and its streaming form call runChatQuery
\* and runChatQueryStream directly (routes/apiV1.js 635 and 721).  The session
\* is loaded first; time is counted in seconds while an attempt is pending.
ChatKinds == {[vec |-> v, count |-> 1] : v \in {Needle, ZeroVec}}

CallSettled == call.phase \in {"idle", "returned", "threw"}

ChatLoad ==
  \E kind \in ChatKinds :
    /\ CallSettled
    /\ clock <= MaxBatches
    /\ chunks' = AddChunks(chunks, 1, 0, ItemsOfKind(kind), FALSE, clock)
    /\ clock' = clock + 1
    /\ UNCHANGED <<queue, jobs, running, sequence, pc, cur, plan, pdfs, lastSearch,
                   embeddingCache, call, answer, streams, history, progress,
                   tables, refresh, auth, params>>

\* ragService 393-398 and 452-459: the call begins and awaits retrieval
ChatCall ==
  \E mode \in {"plain", "stream"}, n \in 0..MaxModels :
    /\ CallSettled
    /\ call' = [NoCall EXCEPT !.phase = "retrieving", !.mode = mode, !.models = n]
    /\ UNCHANGED <<queue, jobs, running, sequence, pc, cur, plan, pdfs, chunks, clock,
                   lastSearch, embeddingCache, answer, streams, history,
                   progress, tables, refresh, auth, params>>

\* ragService 371: generateEmbedding rejected, nothing catches it
CallEmbedRejected ==
  /\ call.phase = "retrieving"
  /\ call' = [call EXCEPT !.phase = "threw"]
  /\ UNCHANGED <<queue, jobs, running, sequence, pc, cur, plan, pdfs, chunks, clock,
                 lastSearch, embeddingCache, answer, streams, history,
                 progress, tables, refresh, auth, params>>

\* ragService 281-294 and 321-334: the loop body calls the backend for
\* candidate i and awaits the race
StartAttempt(c, i) ==
  [c EXCEPT !.i = i,
            !.attempt = IF c.mode = "plain" THEN "calling" ELSE "opening",
            !.elapsed = 0,
            !.fullText = <<>>,
            !.tried = Append(@, [model |-> i, outcome |-> "pending"])]

\* ragService 312 and 363 (the list is exhausted, or empty) and 302-309,
\* 353-360 (the catch rethrows), then 433-450 or the caller of
\* runChatQueryStream
GenerationThrew(c) ==
  LET d == [c EXCEPT !.generation = "threw", !.attempt = "none"] IN
  IF GenerationCaught(c.mode)
  THEN [d EXCEPT !.phase = "returned", !.result = Payload(<<>>, c.candidates)]
  ELSE [d EXCEPT !.phase = "threw"]

\* ragService 296 and 438-449, 347 and 495-510: the text came back
GenerationReturned(c, rawText) ==
  [c EXCEPT !.generation = "resolved", !.attempt = "none", !.phase = "returned",
            !.tried[Len(c.tried)].outcome = "ok",
            !.result = Payload(rawText, c.candidates)]

\* ragService 295-310 and 347-361: the catch of the loop body
AttemptFailed(c, error) ==
  LET d == [c EXCEPT !.tried[Len(c.tried)].outcome = error] IN
  IF ShouldTryNext(error, c.i, c.models)
  THEN StartAttempt(d, c.i + 1)
  ELSE GenerationThrew(d)

\* ragService 277-281 and 317-321: the loop starts at the first candidate
StartGeneration(c) ==
  LET d == [c EXCEPT !.phase = "generating", !.generation = "pending"] IN
  IF c.models = 0 THEN GenerationThrew(d) ELSE StartAttempt(d, 1)

\* ragService 400-423 and 461-490: retrieval settled
CallRetrieved ==
  \E tie \in {"asc", "desc"} :
    /\ call.phase = "retrieving"
    /\ LET found == similaritySearch(chunks, embeddingCache, 1, Needle, DefaultTopK,
                                     DefaultLimit, 0, tie)
           c == [call EXCEPT !.retrieved = TRUE, !.candidates = found.result]
       IN /\ embeddingCache' = found.cache
          /\ call' = IF NoCandidates(found.result)
                     THEN [c EXCEPT !.phase = "returned",
                                    !.result = Payload(<<>>, <<>>),
                                    !.emitted = IF c.mode = "stream"
                                                THEN FALLBACK_ANSWER ELSE <<>>]
                     ELSE StartGeneration(c)
    /\ UNCHANGED <<queue, jobs, running, sequence, pc, cur, plan, pdfs, chunks, clock,
                   lastSearch, answer, streams, history, progress, tables,
                   refresh, auth, params>>

\* ragService 283-296: generateContent resolved before the timer
BackendResolved ==
  \E text \in {<<>>, <<"t">>} :
    /\ call.attempt = "calling"
    /\ call' = GenerationReturned(call, text)
    /\ UNCHANGED <<queue, jobs, running, sequence, pc, cur, plan, pdfs, chunks, clock,
                   lastSearch, embeddingCache, answer, streams, history,
                   progress, tables, refresh, auth, params>>

\* ragService 323-335: generateContentStream resolved before the timer
StreamOpened ==
  /\ call.attempt = "opening"
  /\ call' = [call EXCEPT !.attempt = "streaming"]
  /\ UNCHANGED <<queue, jobs, running, sequence, pc, cur, plan, pdfs, chunks, clock,
                 lastSearch, embeddingCache, answer, streams, history,
                 progress, tables, refresh, auth, params>>

\* ragService 335-344: the stream yielded a chunk with text (one without is
\* skipped and changes nothing)
StreamToken ==
  /\ call.attempt = "streaming"
  /\ Len(call.fullText) < MaxTokens
  /\ call' = [call EXCEPT !.fullText = Append(@, "t"), !.emitted = Append(@, "t")]
  /\ UNCHANGED <<queue, jobs, running, sequence, pc, cur, plan, pdfs, chunks, clock,
                 lastSearch, embeddingCache, answer, streams, history,
                 progress, tables, refresh, auth, params>>

\* ragService 346: the stream ended
StreamEnded ==
  /\ call.attempt = "streaming"
  /\ call' = GenerationReturned(call, call.fullText)
  /\ UNCHANGED <<queue, jobs, running, sequence, pc, cur, plan, pdfs, chunks, clock,
                 lastSearch, embeddingCache, answer, streams, history,
                 progress, tables, refresh, auth, params>>

\* ragService 295 and 347: the backend call, the opening of the stream or
\* the iteration of the stream rejected
BackendRejected ==
  \E error \in {"notFound", "other"} :
    /\ call.attempt \in {"calling", "opening", "streaming"}
    /\ call' = AttemptFailed(call, error)
    /\ UNCHANGED <<queue, jobs, running, sequence, pc, cur, plan, pdfs, chunks, clock,
                   lastSearch, embeddingCache, answer, streams, history,
                   progress, tables, refresh, auth, params>>

\* ragService 289-291 and 329-331: the timer of the race fired first
TimerFired ==
  /\ TimerArmed(call.attempt)
  /\ call.elapsed = GenerationTimeout
  /\ call' = AttemptFailed(call, "timeout")
  /\ UNCHANGED <<queue, jobs, running, sequence, pc, cur, plan, pdfs, chunks, clock,
                 lastSearch, embeddingCache, answer, streams, history,
                 progress, tables, refresh, auth, params>>

\* A second passes while the attempt is pending.  The race is settled when
\* its timer is due; past that the seconds of an attempt are no longer told
\* apart.
Tick ==
  /\ call.attempt # "none"
  /\ call.elapsed <= GenerationTimeout
  /\ TimerArmed(call.attempt) => call.elapsed < GenerationTimeout
  /\ call' = [call EXCEPT !.elapsed = @ + 1]
  /\ UNCHANGED <<queue, jobs, running, sequence, pc, cur, plan, pdfs, chunks, clock,
                 lastSearch, embeddingCache, answer, streams, history,
                 progress, tables, refresh, auth, params>>

NextChat ==
  \/ ChatLoad
  \/ ChatCall
  \/ CallEmbedRejected
  \/ CallRetrieved
  \/ BackendResolved
  \/ StreamOpened
  \/ StreamToken
  \/ StreamEnded
  \/ BackendRejected
  \/ TimerFired
  \/ Tick

SpecChat == Init /\ [][NextChat]_vars

\* C17: when retrieval gives zero candidates, runChatQuery and
\* runChatQueryStream return the canned fallback answer with no sources and
\* usedChunksCount 0, do not throw, and make no call to the generation
\* backend.
C17_NoCandidatesShortCircuits ==
  (call.retrieved /\ call.candidates = <<>>)
    => /\ call.phase = "returned"
       /\ call.result.answer = FALLBACK_ANSWER
       /\ call.result.sources = <<>>
       /\ call.result.usedChunksCount = 0
       /\ call.tried = <<>>
       /\ call.generation = "none"
       /\ call.attempt = "none"

\* the session has rows, none of them with a defined similarity, the list of
\* models is not empty, and the streaming call came back
C17_Witness ==
  /\ call.retrieved
  /\ call.candidates = <<>>
  /\ call.mode = "stream"
  /\ call.models > 0
  /\ call.phase = "returned"
  /\ call.emitted = FALLBACK_ANSWER
  /\ \E k \in DOMAIN chunks : chunks[k].sessionId = 1

\* C18: generateTextWithFallback and generateTextStreamWithFallback try the
\* candidate models in list order, one at a time: candidate i+1 is tried only
\* after candidate i failed with a model-unavailable error, the first success
\* ends the loop, and any other error, or a model-unavailable error on the
\* last candidate, is thrown as a generation failure with no later candidate
\* tried.
Outcome(k) == call.tried[k].outcome

C18_FallbackInListOrder ==
  LET n == Len(call.tried) IN
  /\ n <= call.models
  /\ \A k \in 1..n :
       /\ call.tried[k].model = k
       /\ k < n => isGeminiNotFoundError(Outcome(k))
  /\ call.generation = "none" => n = 0
  /\ call.generation = "pending" => (n > 0 /\ Outcome(n) = "pending" /\ call.i = n)
  /\ call.generation = "resolved" => (n > 0 /\ Outcome(n) = "ok")
  /\ call.generation = "threw"
       => \/ n = 0 /\ call.models = 0
          \/ /\ n > 0
             /\ Outcome(n) \in {"notFound", "other", "timeout"}
             /\ isGeminiNotFoundError(Outcome(n)) => n = call.models

\* the first model was unavailable and the second answered the stream
C18_Witness ==
  /\ call.mode = "stream"
  /\ call.generation = "resolved"
  /\ Len(call.tried) = 2
  /\ call.tried[1].outcome = "notFound"

\* C20: every generation attempt, streaming or not, ends with a result or a
\* failure within the time bound of 25 s: no attempt is still pending after
\* the bound, whether it awaits the backend call or the tokens of a stream
\* already opened.
C20_AttemptEndsWithinBound ==
  call.attempt # "none" => call.elapsed <= GenerationTimeout

\* ------------------------------------------ structured answer formatting
\* A text is the sequence of its lines.  A line is a heading ("## title"),
\* a label ("title:" with or without text after it, title one of the names
\* normalizeSectionTitle knows) or plain; the text of a line is kept as
\* whether it begins with a bullet marker and what follows ("" = nothing).
\* The markdown stripMarkdownFormatting removes is taken as removed.
SectionTitles == <<"Answer", "Key Points", "Evidence", "Follow-up">>

Text(bullet, text) == [bullet |-> bullet, text |-> text]
Blank == Text(FALSE, "")
IsBlank(t) == ~t.bullet /\ t.text = ""

LineKinds ==
  {[kind |-> "heading", title |-> t, text |-> Blank]
     : t \in Range(SectionTitles) \cup {"Body", "Other"}}
    \cup {[kind |-> "label", title |-> t, text |-> Text(FALSE, x)]
            : t \in Range(SectionTitles), x \in {"", "a"}}
    \cup {[kind |-> "plain", title |-> "", text |-> Text(b, x)]
            : b \in BOOLEAN, x \in {"", "a"}}

RawOutputs == UNION {[1..n -> LineKinds] : n \in 0..MaxLines}

\* ragService buildStructuredFallbackAnswer (52-54)
PlainLine(bullet, text) == [kind |-> "plain", title |-> "", text |-> Text(bullet, text)]
LabelLine(title) == [kind |-> "label", title |-> title, text |-> Blank]
buildStructuredFallbackAnswer ==
  <<LabelLine("Answer"), PlainLine(FALSE, "fallback"), PlainLine(FALSE, ""),
    LabelLine("Key Points"), PlainLine(TRUE, "no evidence"), PlainLine(FALSE, ""),
    LabelLine("Evidence"), PlainLine(TRUE, "none"), PlainLine(FALSE, ""),
    LabelLine("Follow-up"), PlainLine(TRUE, "upload")>>

\* String.prototype.trim on a text of lines: the blank lines at both ends go
RECURSIVE TrimLines(_)
TrimLines(lines) ==
  IF lines = <<>> THEN <<>>
  ELSE IF IsBlank(Head(lines)) THEN TrimLines(Tail(lines))
  ELSE IF IsBlank(lines[Len(lines)]) THEN TrimLines(SubSeq(lines, 1, Len(lines) - 1))
  ELSE lines

\* the text of a raw line, for trim at the level of the whole text
LineIsBlank(line) == line.kind = "plain" /\ IsBlank(line.text)

RECURSIVE TrimRaw(_)
TrimRaw(raw) ==
  IF raw = <<>> THEN <<>>
  ELSE IF LineIsBlank(Head(raw)) THEN TrimRaw(Tail(raw))
  ELSE IF LineIsBlank(raw[Len(raw)]) THEN TrimRaw(SubSeq(raw, 1, Len(raw) - 1))
  ELSE raw

NoSection == [title |-> "", lines |-> <<>>, open |-> FALSE]

\* parseStructuredSections pushCurrentSection (99-113): the sections after it
pushCurrentSection(sections, current) ==
  IF ~current.open
  THEN sections
  ELSE LET content == TrimLines(current.lines) IN
       IF content = <<>> /\ current.title = "Body"
       THEN sections
       ELSE Append(sections, [title |-> current.title, content |-> content])

\* parseStructuredSections startSection (115-124): the section now current
startSection(title, firstLine) ==
  [title |-> title, open |-> TRUE,
   lines |-> IF IsBlank(firstLine) THEN <<>> ELSE <<firstLine>>]

\* parseStructuredSections 126-163: the loop over the lines from line i on,
\* then the last pushCurrentSection
RECURSIVE ParseLines(_, _, _, _)
ParseLines(lines, i, sections, current) ==
  IF i > Len(lines)
  THEN pushCurrentSection(sections, current)
  ELSE LET line == lines[i] IN
       IF line.kind \in {"heading", "label"}
       THEN ParseLines(lines, i + 1, pushCurrentSection(sections, current),
                       startSection(line.title, line.text))
       ELSE ParseLines(lines, i + 1, sections,
                       [title |-> IF current.open THEN current.title ELSE "Body",
                        open |-> TRUE,
                        lines |-> Append(current.lines, line.text)])

\* ragService parseStructuredSections (87-166)
parseStructuredSections(text) ==
  LET normalized == TrimRaw(text) IN
  IF normalized = <<>> THEN <<>> ELSE ParseLines(normalized, 1, <<>>, NoSection)

\* ragService getSectionContent (168-174): the content of the first section
\* of that title, "" when there is none
getSectionContent(sections, title) ==
  LET found == {k \in 1..Len(sections) : sections[k].title = title} IN
  IF found = {}
  THEN <<>>
  ELSE TrimLines(sections[CHOOSE k \in found : \A m \in found : k <= m].content)

NotBlank(t) == ~IsBlank(t)
StripBullet(t) == Text(FALSE, t.text)
AddBullet(t) == Text(TRUE, t.text)

ensureBulletListNoFallback(content, fallbackLine) ==
  LET lines == SelectSeq(content, NotBlank)
  IN [k \in 1..Len(lines) |-> AddBullet(StripBullet(lines[k]))]

\* ragService ensureBulletList (176-188)
ensureBulletList(content, fallbackLine) ==
  LET lines == SelectSeq(content, NotBlank)
  IN IF lines = <<>>
     THEN <<Text(TRUE, fallbackLine)>>
     ELSE [k \in 1..Len(lines) |-> AddBullet(StripBullet(lines[k]))]

\* ragService formatStructuredAnswer (190-224): its sections
formatStructuredAnswer(sections) ==
  LET fromAnswer == getSectionContent(sections, "Answer")
      fromBody == getSectionContent(sections, "Body")
      answerContent == IF fromAnswer # <<>> THEN fromAnswer
                       ELSE IF fromBody # <<>> THEN fromBody
                       ELSE <<Text(FALSE, "fallback")>>
  IN <<[title |-> "Answer", content |-> answerContent],
       [title |-> "Key Points",
        content |-> ensureBulletList(getSectionContent(sections, "Key Points"),
                                     "no evidence")],
       [title |-> "Evidence",
        content |-> ensureBulletList(getSectionContent(sections, "Evidence"), "none")],
       [title |-> "Follow-up",
        content |-> ensureBulletList(getSectionContent(sections, "Follow-up"), "upload")]>>

\* ragService normalizeAnswerPayload 259-265, style structured: the sections
\* of responseSchema
normalizeStructured(rawText) ==
  LET trimmedRaw == TrimRaw(rawText) IN
  formatStructuredAnswer(
    parseStructuredSections(IF trimmedRaw # <<>> THEN trimmedRaw
                            ELSE buildStructuredFallbackAnswer))

NormalizeCall ==
  /\ answer = NoAnswer
  /\ \E raw \in RawOutputs :
       answer' = [raw |-> raw, sections |-> normalizeStructured(raw)]
  /\ UNCHANGED <<queue, jobs, running, sequence, pc, cur, plan, pdfs, chunks, clock,
                 lastSearch, embeddingCache, call, streams, history,
                 progress, tables, refresh, auth, params>>

NextFormat ==
  \/ NormalizeCall

SpecFormat == Init /\ [][NextFormat]_vars

\* C21: whatever the raw model output, structured normalization gives
\* responseSchema.sections with exactly four entries titled Answer, Key
\* Points, Evidence, Follow-up in that order, each with content that is not
\* empty.
C21_FourSectionsInOrder ==
  answer # NoAnswer =>
    /\ Len(answer.sections) = 4
    /\ \A k \in 1..4 :
         /\ answer.sections[k].title = SectionTitles[k]
         /\ \E n \in 1..Len(answer.sections[k].content) :
              NotBlank(answer.sections[k].content[n])

\* a raw output that gives Evidence before Answer, Answer twice, and no Key
\* Points or Follow-up
C21_Witness ==
  /\ Len(answer.raw) = 3
  /\ answer.raw[1].title = "Evidence"
  /\ answer.raw[2].title = "Answer"
  /\ answer.raw[3].title = "Answer"
  /\ answer.sections # <<>>

\* ------------------------------------------------ streaming chat route
\* POST /sessions/:sessionId/chat with stream=true (routes/apiV1.js 607-696).
\* Each request has its own closure: res, clientDisconnected, emitEvent.  An
\* event written to a response is kept with the request whose closure
\* produced it.
Event(name, r) == [event |-> name, from |-> r]

emitEventUnguarded(stream, name, r) ==
  [stream EXCEPT !.written = Append(@, Event(name, r))]

\* emitEvent (619-624)
emitEvent(stream, name, r) ==
  IF stream.clientDisconnected \/ stream.writableEnded
  THEN stream
  ELSE [stream EXCEPT !.written = Append(@, Event(name, r))]

PersistAlways(stream) == TRUE

\* the guard of addConversation (655)
ShouldPersist(stream) == ~stream.clientDisconnected

\* chatHistoryService addConversation (128-143) and addConversationTx
\* (57-87): one transaction inserts the user row, then the assistant row
addConversation(rows, r) ==
  rows \o <<[request |-> r, role |-> "user"], [request |-> r, role |-> "assistant"]>>

\* finally (690-694)
EndResponse(stream, outcome) ==
  [stream EXCEPT !.writableEnded = TRUE, !.phase = "ended", !.outcome = outcome]

\* 607-633 and the synchronous start of runChatQueryStream: initSse, the
\* listeners, 'ready', then retrieveCandidates reports retrieving 10 and
\* awaits the embedding.
StreamChat(r) ==
  /\ streams[r].phase = "none"
  /\ streams' = [streams EXCEPT ![r] =
       emitEvent(emitEvent([@ EXCEPT !.phase = "retrieving"], "ready", r),
                 "progress", r)]
  /\ UNCHANGED <<queue, jobs, running, sequence, pc, cur, plan, pdfs, chunks, clock,
                 lastSearch, embeddingCache, call, answer, history, progress,
                 tables, refresh, auth, params>>

\* req 'aborted' (610-612) or res 'close' before the response ended (613-617)
ClientClosed(r) ==
  /\ streams[r].phase \in {"retrieving", "generating"}
  /\ ~streams[r].clientDisconnected
  /\ streams' = [streams EXCEPT ![r].clientDisconnected = TRUE]
  /\ UNCHANGED <<queue, jobs, running, sequence, pc, cur, plan, pdfs, chunks, clock,
                 lastSearch, embeddingCache, call, answer, history, progress,
                 tables, refresh, auth, params>>

\* what the route does once runChatQueryStream has resolved (655-683, 690-694);
\* stored = FALSE: the insert throws and is logged
StreamDone(stream, r, stored) ==
  /\ streams' = [streams EXCEPT ![r] = EndResponse(emitEvent(stream, "done", r), "done")]
  /\ history' = IF ShouldPersist(stream) /\ stored
                THEN addConversation(history, r)
                ELSE history

\* retrieveCandidates resolves (ragService 461-466).  No candidates (468-483):
\* generating 100, the fallback text as one token, and the call returns.
\* Otherwise generating 70 (491-493) and the stream is opened.
StreamRetrieved(r) ==
  /\ streams[r].phase = "retrieving"
  /\ \E found \in BOOLEAN, stored \in BOOLEAN :
       IF found
       THEN /\ streams' = [streams EXCEPT ![r] =
                 emitEvent([@ EXCEPT !.phase = "generating"], "progress", r)]
            /\ UNCHANGED history
       ELSE StreamDone(emitEvent(emitEvent(streams[r], "progress", r), "token", r),
                       r, stored)
  /\ UNCHANGED <<queue, jobs, running, sequence, pc, cur, plan, pdfs, chunks, clock,
                 lastSearch, embeddingCache, call, answer, progress, tables,
                 refresh, auth, params>>

\* onToken (647-652), called by generateTextStreamWithFallback per chunk
StreamEmitToken(r) ==
  /\ streams[r].phase = "generating"
  /\ streams[r].tokens < MaxTokens
  /\ streams' = [streams EXCEPT ![r] = emitEvent([@ EXCEPT !.tokens = @ + 1], "token", r)]
  /\ UNCHANGED <<queue, jobs, running, sequence, pc, cur, plan, pdfs, chunks, clock,
                 lastSearch, embeddingCache, call, answer, history, progress,
                 tables, refresh, auth, params>>

\* the generation stream ends: generating 100 (502-504), the call returns
StreamResolved(r) ==
  /\ streams[r].phase = "generating"
  /\ \E stored \in BOOLEAN :
       StreamDone(emitEvent(streams[r], "progress", r), r, stored)
  /\ UNCHANGED <<queue, jobs, running, sequence, pc, cur, plan, pdfs, chunks, clock,
                 lastSearch, embeddingCache, call, answer, progress, tables,
                 refresh, auth, params>>

\* runChatQueryStream rejects: catch (684-689), finally (690-694)
StreamRejected(r) ==
  /\ streams[r].phase \in {"retrieving", "generating"}
  /\ streams' = [streams EXCEPT ![r] = EndResponse(emitEvent(@, "error", r), "error")]
  /\ UNCHANGED <<queue, jobs, running, sequence, pc, cur, plan, pdfs, chunks, clock,
                 lastSearch, embeddingCache, call, answer, history, progress,
                 tables, refresh, auth, params>>

NextStream ==
  \/ \E r \in Requests : StreamChat(r)
  \/ \E r \in Requests : ClientClosed(r)
  \/ \E r \in Requests : StreamRetrieved(r)
  \/ \E r \in Requests : StreamEmitToken(r)
  \/ \E r \in Requests : StreamResolved(r)
  \/ \E r \in Requests : StreamRejected(r)

SpecStream == Init /\ [][NextStream]_vars

\* C22: the turns of a streamed chat are stored only in the step in which
\* its stream completes, only if no client disconnect was seen, and then as
\* the user row followed by the assistant row; a stream that fails or whose
\* client disconnected stores nothing.
C22_PersistedOnlyOnCompletion ==
  [][history' # history =>
       \E r \in Requests :
         /\ streams[r].outcome = ""
         /\ streams'[r].outcome = "done"
         /\ ~streams[r].clientDisconnected
         /\ history' = addConversation(history, r)]_vars

\* one request completed and was stored; the other one completed after its
\* client had gone and left no row
C22_Witness ==
  \E r, q \in Requests :
    /\ streams[r].outcome = "done" /\ ~streams[r].clientDisconnected
    /\ streams[q].outcome = "done" /\ streams[q].clientDisconnected
    /\ Len(history) = 2
    /\ \A k \in 1..2 : history[k].request = r

\* C23: once a request has seen its client disconnect nothing more is
\* written to its response, and every event on a response comes from the
\* request that owns it.
C23_NoWriteAfterDisconnect ==
  /\ [](\A r \in Requests : \A k \in 1..Len(streams[r].written) :
          streams[r].written[k].from = r)
  /\ [][\A r \in Requests :
          streams[r].clientDisconnected => streams'[r].written = streams[r].written]_vars

\* a request that lost its client while generating, got a token afterwards
\* and completed, beside another request that was answered in full
C23_Witness ==
  \E r, q \in Requests :
    /\ streams[r].clientDisconnected
    /\ streams[r].tokens > 0
    /\ streams[r].outcome = "done"
    /\ Len(streams[r].written) = 3
    /\ streams[q].outcome = "done"
    /\ Len(streams[q].written) > 4

\* ------------------------------------------------- lane order and counts
\* job j is started in this step: processQueue shifts it and counts the attempt
Started(j) ==
  /\ j \in DOMAIN jobs'
  /\ jobs'[j].attempts = (IF j \in DOMAIN jobs THEN jobs[j].attempts ELSE 0) + 1

\* jobQueue.getQueueState (28-41)
getQueueState ==
  [pending |-> Len(queue),
   processing |-> Cardinality({j \in DOMAIN jobs : jobs[j].status = "processing"}),
   completed |-> Cardinality({j \in DOMAIN jobs : jobs[j].status = "completed"}),
   failed |-> Cardinality({j \in DOMAIN jobs : jobs[j].status = "failed"}),
   total |-> Len(jobs)]

\* C24: jobs are started in the order their ids entered the pending lane: a
\* step may push one id at the tail (a new job, or the job whose backoff
\* wait is over) and may then shift the head, and the job it starts is that
\* head; a retried job goes behind every id pending when it is pushed.
C24_StartedInLaneOrder ==
  [][\E lane \in {queue} \cup {Append(queue, x) : x \in JobIds} :
       /\ queue' = lane \/ (lane # <<>> /\ queue' = Tail(lane))
       /\ \A j \in JobIds :
            Started(j) => lane # <<>> /\ j = Head(lane) /\ queue' = Tail(lane)
       /\ (pc = "backoff" /\ pc' # "backoff") => lane = Append(queue, cur)]_vars

\* job 1 failed once and waited while job 2 arrived; when the wait was over
\* job 1 was pushed behind job 2 and job 2 was started
C24_Witness ==
  /\ Len(jobs) = 2
  /\ jobs[1].attempts = 1 /\ jobs[1].status = "queued"
  /\ queue = <<1>>
  /\ cur = 2 /\ jobs[2].status = "processing"

\* C25: getQueueState() gives the counts per status: pending is the number
\* of jobs with status queued, and pending + processing + completed +
\* failed = total.
C25_CountsMatchStatuses ==
  LET state == getQueueState IN
  /\ state.pending = Cardinality({j \in DOMAIN jobs : jobs[j].status = "queued"})
  /\ state.pending + state.processing + state.completed + state.failed = state.total

\* ------------------------------------------------------ progress events
Stages == {"parsing", "chunking", "embedding", "retrieving", "generating"}

\* Math.round(n / d) for n >= 0, d > 0
Round(n, d) == (2 * n + d) \div (2 * d)

\* reportProgress (part_008 55-63): the value is clamped to 0..100
reportProgress(events, stage, value) ==
  Append(events, [stage |-> stage, progress |-> Max(0, Min(100, value))])

\* ragService: onProgress({stage, progress}) as called directly
onProgress(events, stage, value) ==
  Append(events, [stage |-> stage, progress |-> value])

EmbeddingProgressFromZero(processed, total) ==
  IF total > 0 THEN Round(processed * 90, total) ELSE 0

\* indexPdfById 95-98: ratio = total > 0 ? processed / total : 0
EmbeddingProgress(processed, total) ==
  45 + (IF total > 0 THEN Round(processed * 45, total) ELSE 0)

\* retrieveCandidates 378-387: ratio = total > 0 ? processed / total : 1
RetrievingProgress(processed, total) ==
  10 + (IF total > 0 THEN Round(processed * 50, total) ELSE 50)

\* embeddingService.generateEmbeddings / vectorService.similaritySearch:
\* (processed, total) after each internal batch or page of `size` items
ProcessedAfter(processed, size, total) == Min(total, processed + size)

ProgressFrame ==
  UNCHANGED <<queue, jobs, running, sequence, pc, cur, plan, pdfs, chunks, clock,
              lastSearch, embeddingCache, call, answer, streams, history,
              tables, refresh, auth, params>>

\* indexPdfById 65-74: parsing 10, then parseFile is awaited
IndexStarted ==
  /\ progress.phase = "none"
  /\ \E total \in 0..MaxItems, size \in 1..MaxItems :
       progress' = [fn |-> "indexPdfById", phase |-> "parsing", total |-> total,
                    size |-> size, processed |-> 0,
                    events |-> reportProgress(<<>>, "parsing", 10)]
  /\ ProgressFrame

\* indexPdfById 75-93: chunking 35; no chunks: the call returns; otherwise
\* embedding 45 and generateEmbeddings is awaited
IndexParsed ==
  /\ progress.phase = "parsing"
  /\ LET chunked == reportProgress(progress.events, "chunking", 35) IN
     progress' =
       IF progress.total = 0
       THEN [progress EXCEPT !.phase = "returned", !.events = chunked]
       ELSE [progress EXCEPT !.phase = "embedding",
                             !.events = reportProgress(chunked, "embedding", 45)]
  /\ ProgressFrame

\* indexPdfById 95-98: the callback generateEmbeddings calls after a batch
IndexBatchEmbedded ==
  /\ progress.phase = "embedding"
  /\ progress.processed < progress.total
  /\ LET done == ProcessedAfter(progress.processed, progress.size, progress.total) IN
     progress' = [progress EXCEPT
       !.processed = done,
       !.events = reportProgress(@, "embedding",
                                 EmbeddingProgress(done, progress.total))]
  /\ ProgressFrame

\* indexPdfById 101-115: the vectors are stored, the document is marked
\* indexed, embedding 100
IndexStored ==
  /\ progress.phase = "embedding"
  /\ progress.processed = progress.total
  /\ progress' = [progress EXCEPT !.phase = "returned",
                                  !.events = reportProgress(@, "embedding", 100)]
  /\ ProgressFrame

\* retrieveCandidates 366-371 as runChatQuery (400) and runChatQueryStream
\* (461) call it: retrieving 10, then the query embedding is awaited
QueryStarted ==
  /\ progress.phase = "none"
  /\ \E fn \in {"runChatQuery", "runChatQueryStream"},
        total \in 0..MaxItems, size \in 1..MaxItems :
       progress' = [fn |-> fn, phase |-> "retrieving", total |-> total,
                    size |-> size, processed |-> 0,
                    events |-> onProgress(<<>>, "retrieving", 10)]
  /\ ProgressFrame

\* retrieveCandidates 378-387: the callback similaritySearch calls per page;
\* a session without rows has one page with total 0
QueryPageScanned ==
  /\ progress.phase = "retrieving"
  /\ progress.processed < progress.total \/ (progress.total = 0 /\ progress.size > 0)
  /\ LET done == ProcessedAfter(progress.processed, progress.size, progress.total) IN
     progress' = [progress EXCEPT
       !.processed = done,
       !.size = IF progress.total = 0 THEN 0 ELSE @,
       !.events = onProgress(@, "retrieving",
                             RetrievingProgress(done, progress.total))]
  /\ ProgressFrame

\* runChatQuery 407-416, 421-428 and runChatQueryStream 468-483, 491-493:
\* no candidates: generating 100 and the call returns; otherwise
\* generating 70 and the generation is awaited
QueryRetrieved ==
  /\ progress.phase = "retrieving"
  /\ progress.processed = progress.total
  /\ \E candidates \in {0, Min(1, progress.total)} :
       progress' =
         IF candidates = 0
         THEN [progress EXCEPT !.phase = "returned",
                               !.events = onProgress(@, "generating", 100)]
         ELSE [progress EXCEPT !.phase = "generating",
                               !.events = onProgress(@, "generating", 70)]
  /\ ProgressFrame

\* runChatQuery 429-432 and runChatQueryStream 502-504: generating 100
QueryGenerated ==
  /\ progress.phase = "generating"
  /\ progress' = [progress EXCEPT !.phase = "returned",
                                  !.events = onProgress(@, "generating", 100)]
  /\ ProgressFrame

\* an awaited step rejects: the attempt ends and reports nothing more (in
\* runChatQuery a generation failure is caught, 433-439, and reports nothing)
AttemptThrew ==
  /\ progress.phase \in {"parsing", "embedding", "retrieving", "generating"}
  /\ progress' = [progress EXCEPT !.phase = "thrown"]
  /\ ProgressFrame

NextProgress ==
  \/ IndexStarted
  \/ IndexParsed
  \/ IndexBatchEmbedded
  \/ IndexStored
  \/ QueryStarted
  \/ QueryPageScanned
  \/ QueryRetrieved
  \/ QueryGenerated
  \/ AttemptThrew

SpecProgress == Init /\ [][NextProgress]_vars

ForeignKeysOff(t, d) == TRUE

\* migration.js 23, 100-101: foreign_keys = ON, chunks.sessionId references
\* sessions(id) and chunks.pdfId references pdfs(id): an insert into chunks
\* for document d is accepted only while both rows exist
ForeignKeysHold(t, d) == t.session /\ t.pdf[d] = "row"

TablesFrame ==
  UNCHANGED <<queue, jobs, running, sequence, pc, cur, plan, pdfs, chunks, clock,
              lastSearch, embeddingCache, call, answer, streams, history, progress,
              refresh, auth, params>>

\* POST /sessions/:sessionId/pdfs: assertSessionExists, createPdfRecord,
\* addJob(indexPdf), which keeps a job_queue row
OwnerUpload(d) ==
  /\ tables.session
  /\ tables.pdf[d] = "none"
  /\ tables' = [tables EXCEPT !.pdf[d] = "row", !.jobRow[d] = TRUE, !.job[d] = "queued"]
  /\ TablesFrame

\* indexPdfById 65-78: getPdfById; no row: the call returns skipped and the
\* job is completed; otherwise the row is kept in `pdf` and parseFile awaited
OwnerJobStarted(d) ==
  /\ tables.job[d] = "queued"
  /\ \A e \in Docs : tables.job[e] \notin {"parsing", "embedding"}
  /\ tables' = [tables EXCEPT
       !.attempts[d] = @ + 1,
       !.job[d] = IF tables.pdf[d] = "row" THEN "parsing" ELSE "completed"]
  /\ TablesFrame

\* indexPdfById 79-99: the text is chunked and generateEmbeddings awaited
OwnerParsed(d) ==
  /\ tables.job[d] = "parsing"
  /\ tables' = [tables EXCEPT !.job[d] = "embedding"]
  /\ TablesFrame

\* indexPdfById 101-115 and 128-136: addChunks inserts the rows of
\* pdf.sessionId / pdf.id in one transaction; a rejected insert rolls back and
\* throws, markPdfFailed finds no row, and processQueue retries the job while
\* attempts <= maxRetries (jobQueue.js 140-150)
OwnerStored(d) ==
  /\ tables.job[d] = "embedding"
  /\ tables' =
       IF ForeignKeysHold(tables, d)
       THEN [tables EXCEPT !.segments[d] = MaxChunks, !.job[d] = "completed"]
       ELSE [tables EXCEPT !.job[d] = IF tables.attempts[d] <= DefaultMaxRetries
                                      THEN "queued" ELSE "failed"]
  /\ TablesFrame

\* addConversation (chatHistoryService 128-143) at the end of a chat:
\* chat_messages.sessionId references sessions(id), so the rows are
\* accepted only while the session row exists
OwnerChatStored ==
  /\ tables.messages < MaxMessages
  /\ tables.session
  /\ tables' = [tables EXCEPT !.messages = @ + 1]
  /\ TablesFrame

\* pdfRecordService.deletePdfRecord (part_000 140-150): assertPdfExists, then
\* one transaction deletes the chunks of the document and its pdfs row
deletePdfRecord(d) ==
  /\ tables.pdf[d] = "row"
  /\ tables' = [tables EXCEPT !.segments[d] = 0, !.pdf[d] = "deleted"]
  /\ TablesFrame

\* sessionService.deleteSession (324-363): assertSessionExists, then one
\* transaction deletes the job_queue rows of the session and of its
\* documents, the history, the chunks, the pdfs rows and the session row.
\* Rows of documents deleted before are not selected (128-139).
deleteSession ==
  /\ tables.session
  /\ tables' = [tables EXCEPT
       !.session = FALSE,
       !.messages = 0,
       !.segments = [d \in Docs |-> 0],
       !.jobRow = [d \in Docs |-> IF tables.pdf[d] = "row" THEN FALSE ELSE @[d]],
       !.pdf = [d \in Docs |-> IF @[d] = "row" THEN "deletedWithSession" ELSE @[d]]]
  /\ TablesFrame

NextDelete ==
  \/ \E d \in Docs : OwnerUpload(d)
  \/ \E d \in Docs : OwnerJobStarted(d)
  \/ \E d \in Docs : OwnerParsed(d)
  \/ \E d \in Docs : OwnerStored(d)
  \/ OwnerChatStored
  \/ \E d \in Docs : deletePdfRecord(d)
  \/ deleteSession

SpecDelete == Init /\ [][NextDelete]_vars

RefreshFrame ==
  UNCHANGED <<queue, jobs, running, sequence, pc, cur, plan, pdfs, chunks, clock,
              lastSearch, embeddingCache, call, answer, streams, history, tables,
              auth, progress, params>>

keepRefreshToken(rows, t) == rows

\* rotateRefreshToken 453: deleteRefreshTokenStmt.run(row.id)
deleteRefreshToken(rows, t) == rows \ {t}

\* createJWTAuthSession 357-366: a new refresh token gets its row
insertRefreshToken(r) ==
  [r EXCEPT !.issued = @ + 1, !.rows = @ \cup {r.issued + 1}]

\* POST /auth/login, successful: createJWTAuthSession
LoginIssuesToken ==
  /\ refresh.issued < MaxRefresh
  /\ refresh' = insertRefreshToken(refresh)
  /\ RefreshFrame

\* the row's expires_at passes, so getRefreshTokenStmt (55-57) no longer
\* finds it
RefreshTokenExpires(t) ==
  /\ t \in refresh.rows
  /\ refresh' = [refresh EXCEPT !.rows = @ \ {t}]
  /\ RefreshFrame

\* rotateRefreshToken (444-461) with token t; it runs without suspension.
\* No row: 401.  Otherwise the row is deleted, then the user is looked up:
\* missing or inactive: 401, else createJWTAuthSession issues the next pair.
rotateRefreshToken(t) ==
  /\ t <= refresh.issued
  /\ Len(refresh.calls[t]) < MaxCalls
  /\ IF t \notin refresh.rows
     THEN refresh' = [refresh EXCEPT !.calls[t] = Append(@, 401)]
     ELSE \E active \in BOOLEAN :
            LET deleted == [refresh EXCEPT !.rows = deleteRefreshToken(@, t)] IN
            IF active /\ refresh.issued < MaxRefresh
            THEN refresh' = [insertRefreshToken(deleted) EXCEPT
                               !.calls[t] = Append(@, 200)]
            ELSE /\ ~active
                 /\ refresh' = [deleted EXCEPT !.calls[t] = Append(@, 401)]
  /\ RefreshFrame

NextRefresh ==
  \/ LoginIssuesToken
  \/ \E t \in Tokens : RefreshTokenExpires(t)
  \/ \E t \in Tokens : rotateRefreshToken(t)

SpecRefresh == Init /\ [][NextRefresh]_vars

\* C28: a refresh token is single-use: of the rotateRefreshToken calls with
\* one token at most one succeeds, and every call after it is rejected
\* with 401.
C28_RefreshTokenSingleUse ==
  \A t \in Tokens :
    \A k \in 1..Len(refresh.calls[t]) :
      refresh.calls[t][k] = 200 =>
        \A m \in (k + 1)..Len(refresh.calls[t]) : refresh.calls[t][m] = 401

\* a token that was rotated and then presented again
C28_Witness ==
  \E t \in Tokens :
    /\ Len(refresh.calls[t]) >= 2
    /\ refresh.calls[t][1] = 200
    /\ refresh.calls[t][2] = 401

\* ---------------------------------------------------------------- login
\* authenticateUser for one (email, ip) pair.  auth.user: the email has a
\* users row.  A call carries the row it found (user) and whether its
\* password matches the hash it is compared with (matches).
AuthFrame ==
  UNCHANGED <<queue, jobs, running, sequence, pc, cur, plan, pdfs, chunks, clock,
              lastSearch, embeddingCache, call, answer, streams, history, tables,
              refresh, progress, params>>

\* assertLoginAllowed (191-202): the call is refused
LoginLocked(row, now) == row.exists /\ row.locked_until > now

\* markFailedLogin (204-231): the row after it
markFailedLogin(row, now) ==
  IF ~row.exists
  THEN [exists |-> TRUE, attempts |-> 1, locked_until |-> 0, window_start |-> now]
  ELSE LET expired == now - row.window_start > LOGIN_WINDOW_MS
           attempts == IF expired THEN 1 ELSE row.attempts + 1
           windowStart == IF expired THEN now ELSE row.window_start
       IN IF attempts >= LOGIN_MAX_FAILURES
          THEN [exists |-> TRUE, attempts |-> 0, locked_until |-> now + LOGIN_LOCK_MS,
                window_start |-> now]
          ELSE [exists |-> TRUE, attempts |-> attempts,
                locked_until |-> row.locked_until, window_start |-> windowStart]

\* clearFailedLogin (233-237): the row is deleted
clearFailedLogin(row) == NoRow

RejectedByAccount(user) ==
  IF user
  THEN [status |-> 401, code |-> "INVALID_CREDENTIALS", message |-> "invalid"]
  ELSE [status |-> 404, code |-> "USER_NOT_FOUND", message |-> "unknown"]

\* authenticateUser 317-319: the error of a failed login
Rejected(user) ==
  [status |-> 401, code |-> "INVALID_CREDENTIALS", message |-> "invalid"]

\* assertLoginAllowed 198: the error of a refused login
Refused == [status |-> 429, code |-> "INVALID_CREDENTIALS", message |-> "invalid"]

\* authenticateUser (304-324) run without another login in between: the
\* response and the login_attempts row it leaves
authenticateUser(row, now, user, matches) ==
  IF LoginLocked(row, now)
  THEN [response |-> Refused, row |-> row]
  ELSE IF ~user \/ ~matches
  THEN [response |-> Rejected(user), row |-> markFailedLogin(row, now)]
  ELSE [response |-> [status |-> 200, code |-> "", message |-> ""],
        row |-> clearFailedLogin(row)]

\* authenticateUser 304-313: assertLoginAllowed throws 429, or the user is
\* looked up and the password comparison is awaited
LoginStarted(r) ==
  /\ auth.logins[r].phase # "comparing"
  /\ \E user \in {auth.user}, matches \in BOOLEAN :
       auth' = [auth EXCEPT !.logins[r] =
         IF LoginLocked(auth.attempt, auth.now)
         THEN [phase |-> "done", user |-> user, matches |-> matches,
               status |-> Refused.status]
         ELSE [phase |-> "comparing", user |-> user, matches |-> matches,
               status |-> 0]]
  /\ AuthFrame

\* authenticateUser 315-323: the comparison has resolved
LoginCompared(r) ==
  /\ auth.logins[r].phase = "comparing"
  /\ LET login == auth.logins[r]
         failed == ~login.user \/ ~login.matches
         row == IF failed THEN markFailedLogin(auth.attempt, auth.now)
                ELSE clearFailedLogin(auth.attempt)
     IN auth' = [auth EXCEPT
          !.attempt = row,
          !.lockSet = IF row.locked_until > auth.attempt.locked_until
                      THEN row.locked_until ELSE @,
          !.logins[r] = [login EXCEPT
             !.phase = "done",
             !.status = IF failed THEN Rejected(login.user).status ELSE 200]]
  /\ AuthFrame

\* POST /auth/register: createUser (262-302) inserts the users row
Registered ==
  /\ ~auth.user
  /\ auth' = [auth EXCEPT !.user = TRUE]
  /\ AuthFrame

\* Date.now() advances
LoginTick ==
  /\ auth.now < MaxTime
  /\ auth' = [auth EXCEPT !.now = @ + 1]
  /\ AuthFrame

NextLogin ==
  \/ \E r \in Logins : LoginStarted(r)
  \/ \E r \in Logins : LoginCompared(r)
  \/ Registered
  \/ LoginTick

SpecLogin == Init /\ [][NextLogin]_vars

\* C29: once LOGIN_MAX_FAILURES failed logins of the pair within the window
\* have set the lock, every further login attempt of the pair is refused
\* with 429 until that lock expires, whatever its password: no call passes
\* assertLoginAllowed while the lock that was set still runs.
C29_LockedUntilExpiry ==
  [][\A r \in Logins :
       (auth.lockSet > auth.now /\ auth.logins[r].phase # "comparing")
         => auth'.logins[r].phase # "comparing"]_vars

\* C30: login does not tell whether the account exists: from the same
\* lockout state a login with an unknown email and a login with a known
\* email and a wrong password get the same status, code and message and
\* leave the same failure counter.
C30_UnknownEmailIndistinguishable ==
  \A matches \in BOOLEAN :
    authenticateUser(auth.attempt, auth.now, FALSE, matches)
      = authenticateUser(auth.attempt, auth.now, TRUE, FALSE)

\* a login with an unknown email and one with a known email and a wrong
\* password have both been rejected
C30_Witness ==
  \E r, q \in Logins :
    /\ auth.logins[r].phase = "done" /\ ~auth.logins[r].user
    /\ auth.logins[r].status = 401
    /\ auth.logins[q].phase = "done" /\ auth.logins[q].user /\ ~auth.logins[q].matches
    /\ auth.logins[q].status = 401
    /\ auth.attempt.attempts = 2

\* ------------------------------------------------- job status transitions
\* C31: every change of a job's status is queued -> processing, processing ->
\* completed, processing -> queued (the retry) or processing -> failed;
\* completed and failed are terminal; attempts grows by exactly 1 on each
\* queued -> processing step and never otherwise.  A job addJob has just
\* stored is queued with no attempt, or already started with one.
C31_StatusTransitions ==
  [][/\ \A j \in DOMAIN jobs :
          /\ j \in DOMAIN jobs'
          /\ jobs'[j].status # jobs[j].status
               => <<jobs[j].status, jobs'[j].status>>
                    \in {<<"queued", "processing">>, <<"processing", "completed">>,
                         <<"processing", "queued">>, <<"processing", "failed">>}
          /\ jobs[j].status \in {"completed", "failed"} => jobs'[j] = jobs[j]
          /\ jobs'[j].attempts =
               IF jobs[j].status = "queued" /\ jobs'[j].status = "processing"
               THEN jobs[j].attempts + 1
               ELSE jobs[j].attempts
     /\ \A j \in DOMAIN jobs' \ DOMAIN jobs :
          \/ jobs'[j].status = "queued" /\ jobs'[j].attempts = 0
          \/ jobs'[j].status = "processing" /\ jobs'[j].attempts = 1]_vars

\* One job completed on a retry and another failed for good: each of the four
\* changes has happened.
C31_Witness ==
  /\ \E j \in DOMAIN jobs : jobs[j].status = "completed" /\ jobs[j].attempts >= 2
  /\ \E j \in DOMAIN jobs :
       jobs[j].status = "failed" /\ jobs[j].attempts = jobs[j].maxRetries + 1

C33_BackoffDoesNotBlockLane ==
  (queue # <<>> /\ \E j \in DOMAIN jobs : jobs[j].status = "queued" /\ j \notin Range(queue))
    => Processing # {}

\* C34 (as claimed): a completed job has a result and error = null; the error
\* of a job is not null only while the job waits for a retry or is failed.
C34_ResultAndErrorMatchStatus ==
  \A j \in DOMAIN jobs :
    /\ jobs[j].status = "completed"
         => (jobs[j].result # NoResult /\ jobs[j].error = "null")
    /\ jobs[j].error # "null" => jobs[j].status \in {"queued", "failed"}

\* How many rows of the given role the history has for the message of job j.
TurnsOf(j, role) ==
  Cardinality({k \in DOMAIN history : history[k].request = j /\ history[k].role = role})

\* C35 (as claimed): a completed chatQuery job has appended exactly one user
\* turn and one assistant turn over all its attempts, and a failed one none.
C35_TurnsAppendedOnce ==
  \A j \in DOMAIN jobs :
    jobs[j].type = "chatQuery" =>
      /\ jobs[j].status = "completed"
           => (TurnsOf(j, "user") = 1 /\ TurnsOf(j, "assistant") = 1)
      /\ jobs[j].status = "failed"
           => (TurnsOf(j, "user") = 0 /\ TurnsOf(j, "assistant") = 0)


\* ------------------------------------------------- cache transparency
\* The row of the chunks table with the given id.
RowWithId(id) == chunks[CHOOSE k \in DOMAIN chunks : chunks[k].id = id]

\* C36: the embedding cache is transparent.  Every cached vector is the
\* parsed embedding column of the row with that id, and a search of any
\* session with any query and topK gives the same candidates with the same
\* scores from the cache as it is as from an empty cache.
C36_CacheTransparent ==
  /\ \A i \in DOMAIN embeddingCache.entries :
       /\ \E k \in DOMAIN chunks : chunks[k].id = embeddingCache.entries[i].id
       /\ embeddingCache.entries[i].vector = RowWithId(embeddingCache.entries[i].id).embedding
  /\ \A s \in Sessions, q \in {Needle, Diag, ZeroVec, Short}, topK \in {1, DefaultTopK},
        tie \in {"asc", "desc"} :
       similaritySearch(chunks, embeddingCache, s, q, topK, DefaultLimit, 0, tie).result
         = similaritySearch(chunks, EmptyCache, s, q, topK, DefaultLimit, 0, tie).result

\* A search found matches, and the cache is warm: it holds every row of the
\* store, rows of different vectors among them.
C36_Witness ==
  /\ SearchIsFresh
  /\ lastSearch.result # <<>>
  /\ \E i, j \in DOMAIN embeddingCache.entries :
       embeddingCache.entries[i].vector # embeddingCache.entries[j].vector
  /\ Len(embeddingCache.entries) = Len(chunks)
  /\ Len(chunks) >= 2


\* ------------------------------------------------- failed embedding step
\* C37: when the embedding step of indexPdfById fails, the attempt leaves the
\* chunks table as it was: no row of the document, or of any other, is
\* inserted or deleted.
C37_EmbedFailureLeavesSegments ==
  [][EmbedRejected => chunks' = chunks]_vars

\* The embedding step of a retry failed, and the document still has the rows
\* an earlier attempt had inserted.
C37_Witness ==
  \E j \in DOMAIN jobs :
    /\ jobs[j].type = "indexPdf"
    /\ jobs[j].error = "embedding"
    /\ jobs[j].status \in {"queued", "failed"}
    /\ jobs[j].attempts >= 2
    /\ RowsOfPdf(jobs[j].target) # {}


\* ------------------------------------------------- streamed tokens
\* C38 (as claimed): when runChatQueryStream got its text from the stream,
\* the tokens handed to onToken, in order, are the accumulated text that
\* generateTextStreamWithFallback returned and normalizeAnswerPayload was
\* given, also after a fallback to the next candidate model.
C38_TokensEqualAccumulatedText ==
  (call.mode = "stream" /\ call.generation = "resolved")
    => /\ call.emitted = call.fullText
       /\ call.result.answer = normalizeAnswerPayload(call.emitted)


\* ------------------------------------------------- negative similarity
\* C39 (as claimed): a search leaves a scanned row out only when its
\* similarity to the query is undefined or when topK rows rank above it, so
\* a row with a defined, negative similarity is eligible; and
\* cosineSimilarity gives the invalid sentinel for no row whose similarity to
\* the query is defined.
C39_OnlyUndefinedOrOutrankedLeftOut ==
  SearchIsFresh =>
    LET page == ScannedPage
        res == lastSearch.result
        Returned(n) == \E i \in 1..Len(res) : res[i].chunkId = page[n].id
    IN \A n \in 1..Len(page) :
         SimilarityDefined(lastSearch.query, page[n].embedding)
           => /\ cosineSimilarity(lastSearch.query, page[n].embedding) # Invalid
              /\ Returned(n) \/ Len(res) = lastSearch.topK


\* ------------------------------------------------- indexing parameters
\* Text lengths in characters: the multiples of 4000 and one character more,
\* which lie on both sides of every tier boundary for the whole ratios below.
TextLengths == {k * 4000 + d : k \in 0..MaxLengthSteps, d \in {0, 1}}

\* Settings of RAG_TOKEN_TO_CHAR_RATIO as Number() reads them, counted in
\* quarters (-4 is -1, 1 is 0.25, 16 is 4); 0 stands for 0, unset, empty and
\* not a number.  Every product of a tier's token count and a ratio in
\* quarters is a whole number.
RatioSettings == (-4)..(4 * MaxRatio)

\* part_008:9  Number(process.env.RAG_TOKEN_TO_CHAR_RATIO) || 4, in quarters
RatioOf(env) == IF env = 0 THEN 4 * TOKEN_TO_CHAR_RATIO ELSE env

\* Math.ceil(a / b) for integers a and b, b not 0
CeilDiv(a, b) == IF b > 0 THEN -((-a) \div b) ELSE -(a \div (-b))

\* getIndexingParams 21-37: the tier of a text of approxTokens tokens
TierOf(approxTokens) ==
  IF approxTokens <= 4000
  THEN [chunkTokens |-> 800, overlapTokens |-> 160, batchSize |-> 32]
  ELSE IF approxTokens <= 20000
  THEN [chunkTokens |-> 1000, overlapTokens |-> 200, batchSize |-> 24]
  ELSE IF approxTokens <= 80000
  THEN [chunkTokens |-> 1200, overlapTokens |-> 240, batchSize |-> 20]
  ELSE [chunkTokens |-> 1400, overlapTokens |-> 280, batchSize |-> 16]

\* A chunk size without its lower limit.
ChunkSizeUnclamped(chunkTokens, ratio) == (chunkTokens * ratio) \div 4

\* getIndexingParams 39, the ratio in quarters
ChunkSizeOf(chunkTokens, ratio) == Max(400, (chunkTokens * ratio) \div 4)

\* getIndexingParams 40: the overlap of the tier, before line 41 tests it
TierOverlap(overlapTokens, ratio) == Max(80, (overlapTokens * ratio) \div 4)

\* getIndexingParams 15: Math.ceil(text.length / TOKEN_TO_CHAR_RATIO)
ApproxTokens(length, ratio) == CeilDiv(4 * length, ratio)

\* indexingService.getIndexingParams (14-46) for a text of the given length
\* and a ratio in quarters
getIndexingParams(length, ratio) ==
  LET tier == TierOf(ApproxTokens(length, ratio))
      chunkSize == ChunkSizeOf(tier.chunkTokens, ratio)
      overlap == TierOverlap(tier.overlapTokens, ratio)
  IN [chunkSize |-> chunkSize,
      overlap |-> IF overlap >= chunkSize THEN chunkSize \div 5 ELSE overlap,
      batchSize |-> tier.batchSize]

\* indexPdfById 80: getIndexingParams(rawText)
IndexingParamsCall ==
  /\ ~params.called
  /\ \E length \in TextLengths, env \in RatioSettings :
       params' = [called |-> TRUE, length |-> length, env |-> env,
                  result |-> getIndexingParams(length, RatioOf(env))]
  /\ UNCHANGED <<queue, jobs, running, sequence, pc, cur, plan, pdfs, chunks, clock,
                 lastSearch, embeddingCache, call, answer, streams, history,
                 progress, tables, refresh, auth>>

NextParams == IndexingParamsCall

SpecParams == Init /\ [][NextParams]_vars

\* The overlap line 40 computed in the recorded call.
RecordedTierOverlap ==
  TierOverlap(TierOf(ApproxTokens(params.length, RatioOf(params.env))).overlapTokens,
              RatioOf(params.env))

\* C40: getIndexingParams returns overlap < chunkSize and chunkSize >= 400
\* for every text, and an overlap that would be chunkSize or more is replaced
\* by floor(chunkSize / 5).
C40_OverlapBelowChunkSize ==
  params.called =>
    /\ params.result.chunkSize >= 400
    /\ params.result.overlap < params.result.chunkSize
    /\ params.result.overlap =
         IF RecordedTierOverlap >= params.result.chunkSize
         THEN params.result.chunkSize \div 5
         ELSE RecordedTierOverlap

\* A call for a text of the largest tier with a ratio so small that both
\* lower limits apply: the overlap is as near to the chunk size as it gets.
C40_Witness ==
  /\ params.called
  /\ params.result.batchSize = 16
  /\ RatioOf(params.env) > 0
  /\ RatioOf(params.env) < 4
  /\ params.result.chunkSize = 400
  /\ params.result.overlap = 80

====
